---- MODULE Spec2Model ----
(***************************************************************************)
(* Device-state core of the ESP8266 Neopixel controller                    *)
(* (ESP8266_Neopixel_Controller.ino): the colour palette kept in the       *)
(* EEPROM record, the request functions behind the HTTP and MQTT           *)
(* handlers, the button click navigator, boot-time loading of the record   *)
(* and the order of one loop() iteration.                                  *)
(*                                                                         *)
(* Strings (char arrays) are sequences of one-character strings.  Integer  *)
(* fields keep the width the firmware gives them (uint8_t: modulo 256).    *)
(* A 32-bit CRC is a pair <<high 16 bits, low 16 bits>>.                   *)
(***************************************************************************)
EXTENDS Integers, Sequences, FiniteSets, TLC

(***************************************************************************)
(* Bounds.  The firmware is built with COLOR_COUNT = 10 and twelve         *)
(* effects; the model keeps the code unchanged and scales both down.       *)
(***************************************************************************)
\* maximum number of saved colours (#define COLOR_COUNT, 10 in the firmware)
COLOR_COUNT == 3
\* number of entries of effects[] kept in the model (12 in the firmware)
NUM_EFFECTS == 2
\* #define EFFECT_FRAMES_PER_SECOND (30 in the firmware)
EFFECT_FRAMES_PER_SECOND == 2

\* enum TProgram_States
NEOPIXEL_OFF == 0
NEOPIXEL_COLOR == 1
NEOPIXEL_EFFECT == 2

BUTTON_NO_CLICK == 0
BUTTON_SINGLE_CLICK == 1
BUTTON_DOUBLE_CLICK == 2
BUTTON_LONG_CLICK == 3

(***************************************************************************)
(* Characters and C library helpers                                        *)
(***************************************************************************)
HexUpper == <<"0","1","2","3","4","5","6","7","8","9","A","B","C","D","E","F">>
HexLower == <<"0","1","2","3","4","5","6","7","8","9","a","b","c","d","e","f">>
DecDigits == <<"0","1","2","3","4","5","6","7","8","9">>

isxdigit(c) == \E i \in 1..16 : HexUpper[i] = c \/ HexLower[i] = c
HexVal(c) == (CHOOSE i \in 1..16 : HexUpper[i] = c \/ HexLower[i] = c) - 1
isdigit(c) == \E i \in 1..10 : DecDigits[i] = c
DecVal(c) == (CHOOSE i \in 1..10 : DecDigits[i] = c) - 1

strlen(s) == Len(s)

\* strncpy(dst, src, n + 1); dst[n] = '\0' as the handlers use it: the
\* first n characters of src, or all of src when it is shorter
Truncate(s, n) == IF Len(s) <= n THEN s ELSE SubSeq(s, 1, n)

\* conversion of an integer to uint8_t
U8(n) == n % 256

(***************************************************************************)
(* colorType and the colour helpers                                        *)
(***************************************************************************)
colorType(r, g, b, brtns) == [rgb |-> <<r, g, b>>, brtns |-> brtns]

\* void resetColor(colorType * color): the value the slot holds afterwards
resetColor == colorType(0, 0, 0, 0)

\* sscanf(rgbHex, "%x", &rgb32): value of the leading run of hex digits.
\* Only the low 24 bits are used by parseHexColor, so the value is kept
\* modulo 2^24.
RECURSIVE ScanHex(_, _, _)
ScanHex(s, k, acc) ==
  IF k > Len(s) \/ ~isxdigit(s[k]) THEN acc
  ELSE ScanHex(s, k + 1, (acc * 16 + HexVal(s[k])) % 16777216)

\* void parseHexColor(const char* rgbHex, uint8_t rgb[])
parseHexColor(rgbHex) ==
  LET rgb32 == ScanHex(rgbHex, 1, 0)
  IN <<rgb32 \div 65536, (rgb32 \div 256) % 256, rgb32 % 256>>

\* uint8_t checkValidColor(char* rgbHex, uint8_t brightness)
checkValidColor(rgbHex, brightness) ==
  IF strlen(rgbHex) # 6 THEN 0
  ELSE IF \E i \in 1..6 : ~isxdigit(rgbHex[i]) THEN 0
  ELSE IF parseHexColor(rgbHex) = <<0, 0, 0>> THEN 0
  ELSE IF brightness > 100 THEN 0
  ELSE 1

(***************************************************************************)
(* The effect table                                                        *)
(***************************************************************************)
\* effectType effects[] as the firmware declares it
effectsTable == <<
  [effectName |-> <<"r","a","i","n","b","o","w">>, effectFrames |-> EFFECT_FRAMES_PER_SECOND * 5],
  [effectName |-> <<"r","a","i","n","b","o","w","G","l">>, effectFrames |-> EFFECT_FRAMES_PER_SECOND * 5],
  [effectName |-> <<"c","o","n","f","e","t","t","i">>, effectFrames |-> EFFECT_FRAMES_PER_SECOND * 5],
  [effectName |-> <<"s","i","n","e","l","o","n">>, effectFrames |-> EFFECT_FRAMES_PER_SECOND * 5],
  [effectName |-> <<"b","p","m">>, effectFrames |-> EFFECT_FRAMES_PER_SECOND * 5],
  [effectName |-> <<"j","u","g","g","l","e">>, effectFrames |-> EFFECT_FRAMES_PER_SECOND],
  [effectName |-> <<"f","i","r","e","2","0","1","2">>, effectFrames |-> EFFECT_FRAMES_PER_SECOND],
  [effectName |-> <<"c","y","l","o","n">>, effectFrames |-> EFFECT_FRAMES_PER_SECOND * 4],
  [effectName |-> <<"s","p","a","r","k","l","e">>, effectFrames |-> EFFECT_FRAMES_PER_SECOND],
  [effectName |-> <<"s","n","o","w","s","p","a","r","k">>, effectFrames |-> EFFECT_FRAMES_PER_SECOND],
  [effectName |-> <<"m","e","t","e","o","r">>, effectFrames |-> EFFECT_FRAMES_PER_SECOND * 2],
  [effectName |-> <<"t","h","e","a","t","r","e">>, effectFrames |-> EFFECT_FRAMES_PER_SECOND \div 2]>>

\* the name of the descriptor whose function keeps state between its calls
\* in a static array (fire2012, static byte heat[NUM_LEDS])
fire2012 == <<"f","i","r","e","2","0","1","2">>

\* the descriptors kept in the model: the first NUM_EFFECTS of the table,
\* and after them the descriptor of fire2012
effects ==
  SubSeq(effectsTable, 1, NUM_EFFECTS)
    \o SelectSeq(effectsTable, LAMBDA e : e.effectName = fire2012)

\* ARRAY_SIZE(effects)
ARRAY_SIZE_effects == Len(effects)

\* uint8_t checkValidEffect(char* effectName): index of the first entry
\* whose name compares equal (strcmp), ARRAY_SIZE(effects) when none does
checkValidEffect(effectName) ==
  LET S == {i \in 0..(ARRAY_SIZE_effects - 1) : effects[i + 1].effectName = effectName}
  IN IF S = {} THEN ARRAY_SIZE_effects
     ELSE CHOOSE i \in S : \A j \in S : i <= j

(***************************************************************************)
(* npControllerEEPROMType: the record held in RAM and written to EEPROM    *)
(***************************************************************************)
npControllerSettingType(colorCount, programState, activeColor, activeEffect) ==
  [colorCount |-> colorCount, programState |-> programState,
   activeColor |-> activeColor, activeEffect |-> activeEffect]

\* the zero-initialised global npControllerEEPROM
ZeroRecord ==
  [crc32 |-> <<0, 0>>,
   npControllerSetting |-> npControllerSettingType(0, NEOPIXEL_OFF, 0, 0),
   colors |-> [i \in 0..COLOR_COUNT |-> resetColor]]

\* the bytes of the record after its first four (the crc32 field), in memory
\* order: colorCount, programState (an int-sized enum), activeColor,
\* activeEffect, then rgb[0], rgb[1], rgb[2], brtns of every colour.
\* Padding bytes are zero: the global is zero-initialised and EEPROM.get
\* only brings back bytes that EEPROM.put took from this same object.
RecordBytes(E) ==
  LET st == E.npControllerSetting
      head == <<st.colorCount, 0, 0, 0, st.programState, 0, 0, 0,
                st.activeColor, st.activeEffect, 0, 0>>
      body == [k \in 1..(4 * (COLOR_COUNT + 1)) |->
                 LET c == E.colors[(k - 1) \div 4]
                     f == (k - 1) % 4
                 IN IF f = 3 THEN c.brtns ELSE c.rgb[f + 1]]
  IN head \o body

(***************************************************************************)
(* calculateCRC32                                                          *)
(***************************************************************************)
\* a ^ w for a single-bit w, as a signed difference
Flip(a, w) == IF (a \div w) % 2 = 1 THEN 0 - w ELSE w

\* crc ^= 0x04c11db7, on the high half (0x04c1) and the low half (0x1db7)
XorPolyHi(a) == a + Flip(a, 1024) + Flip(a, 128) + Flip(a, 64) + Flip(a, 1)
XorPolyLo(a) ==
  a + Flip(a, 4096) + Flip(a, 2048) + Flip(a, 1024) + Flip(a, 256) + Flip(a, 128)
    + Flip(a, 32) + Flip(a, 16) + Flip(a, 4) + Flip(a, 2) + Flip(a, 1)

\* one pass of the inner for loop: bit = crc & 0x80000000; if (c & i)
\* bit = !bit; crc <<= 1; if (bit) crc ^= 0x04c11db7
crcBit(crc, c, i) ==
  LET bit == ((crc[1] \div 32768) = 1) # ((c \div i) % 2 = 1)
      hi  == ((crc[1] % 32768) * 2) + (crc[2] \div 32768)
      lo  == (crc[2] % 32768) * 2
  IN IF bit THEN <<XorPolyHi(hi), XorPolyLo(lo)>> ELSE <<hi, lo>>

\* for ( uint32_t i = 0x80; i > 0; i >>= 1 ): the eight passes for one byte
RECURSIVE crcBits(_, _, _)
crcBits(crc, c, i) ==
  IF i = 0 THEN crc
  ELSE LET n == crcBit(crc, c, i)
       IN IF n[1] >= 0 THEN crcBits(n, c, i \div 2) ELSE n

\* a ^ b on n-bit values
RECURSIVE XorBits(_, _, _)
XorBits(a, b, n) ==
  IF n = 0 THEN 0
  ELSE (IF (a % 2) = (b % 2) THEN 0 ELSE 1) + 2 * XorBits(a \div 2, b \div 2, n - 1)

\* a ^ b on bytes, tabulated (entry [a + 1][b + 1])
Xor8 == [a \in 1..256 |-> [b \in 1..256 |-> XorBits(a - 1, b - 1, 8)] \o <<>>] \o <<>>

\* the eight passes applied to every byte value from a zero crc, tabulated
crcTable == [c \in 1..256 |-> crcBits(<<0, 0>>, c - 1, 128)] \o <<>>

\* the eight passes of the inner loop for the byte c.  The passes are linear
\* over XOR, so their result is (crc << 8) ^ crcTable[(crc >> 24) ^ c]; this
\* is the same value as crcBits(crc, c, 0x80) and far cheaper to evaluate.
crcByte(crc, c) ==
  LET t == crcTable[Xor8[(crc[1] \div 256) + 1][c + 1] + 1]
  IN <<Xor8[(crc[1] % 256) + 1][(t[1] \div 256) + 1] * 256
         + Xor8[(crc[2] \div 256) + 1][(t[1] % 256) + 1],
       Xor8[(crc[2] % 256) + 1][(t[2] \div 256) + 1] * 256 + (t[2] % 256)>>

\* while ( length-- ) over data[lo..hi]; the range is split in two so that
\* the evaluation stays shallow, the bytes are still taken in order
RECURSIVE crcRange(_, _, _, _)
crcRange(crc, data, lo, hi) ==
  IF lo > hi THEN crc
  ELSE IF lo = hi THEN crcByte(crc, data[lo])
  ELSE LET mid  == (lo + hi) \div 2
           half == crcRange(crc, data, lo, mid)
       IN IF half[1] >= 0 THEN crcRange(half, data, mid + 1, hi) ELSE half

\* uint32_t calculateCRC32( const uint8_t *data, size_t length )
calculateCRC32(data) == crcRange(<<65535, 65535>>, data, 1, Len(data))

(***************************************************************************)
(* Palette lookup                                                          *)
(***************************************************************************)
\* uint8_t findColor(uint8_t rgb[], uint8_t brightness): the first index in
\* [0, colorCount) holding exactly this colour, COLOR_COUNT when none does
\* findColor as it would be if it compared the first saved colour only
findColor_FirstOnly(E, rgb, brightness) ==
  IF /\ E.npControllerSetting.colorCount > 0
     /\ E.colors[0].brtns = brightness
     /\ E.colors[0].rgb = rgb
  THEN 0
  ELSE COLOR_COUNT

findColor(E, rgb, brightness) ==
  LET S == {i \in 0..(E.npControllerSetting.colorCount - 1) :
              /\ E.colors[i].brtns = brightness
              /\ E.colors[i].rgb = rgb}
  IN IF S = {} THEN COLOR_COUNT
     ELSE CHOOSE i \in S : \A j \in S : i <= j

(***************************************************************************)
(* The globals the request functions work on, gathered in one record G:    *)
(*   E              npControllerEEPROM (colors and npControllerSetting     *)
(*                  point into it)                                         *)
(*   changeNeopixel the redraw flag                                        *)
(*   flash          what the EEPROM emulation holds in flash: used is      *)
(*                  FALSE for flash without a record (percentUsed() < 0),  *)
(*                  data is the record last committed                      *)
(* A request function yields [G |-> the globals afterwards, result |-> its *)
(* return value].                                                          *)
(***************************************************************************)
Setting(G) == G.E.npControllerSetting

WithSetting(G, field, value) ==
  [G EXCEPT !.E.npControllerSetting[field] = value]

WithColor(G, index, color) ==
  [G EXCEPT !.E.colors[index] = color]

\* saveEEPROM as it would be if it wrote the record with the crc32 field as
\* it was, not recomputed
saveEEPROM_StaleChecksum(G, commitOk) ==
  [G |-> [G EXCEPT !.flash = IF commitOk THEN [used |-> TRUE, data |-> G.E] ELSE @],
   result |-> IF commitOk THEN 1 ELSE 0]

\* saveEEPROM as it would be if the record reached the flash also when
\* EEPROM.commit() reports a failure
saveEEPROM_WritesAnyway(G, commitOk) ==
  LET crc == calculateCRC32(RecordBytes(G.E))
      E1  == [G.E EXCEPT !.crc32 = crc]
  IN [G |-> [G EXCEPT !.E = E1, !.flash = [used |-> TRUE, data |-> E1]],
      result |-> IF commitOk THEN 1 ELSE 0]

\* uint8_t saveEEPROM(): the crc32 field is recomputed over the rest of the
\* record, the record is put and committed; commitOk is what
\* EEPROM.commit() returns.  A failed commit leaves the flash as it was.
saveEEPROM(G, commitOk) ==
  LET crc == calculateCRC32(RecordBytes(G.E))
      E1  == [G.E EXCEPT !.crc32 = crc]
  IN [G |-> [G EXCEPT !.E = E1,
                      !.flash = IF commitOk THEN [used |-> TRUE, data |-> E1] ELSE @],
      result |-> IF commitOk THEN 1 ELSE 0]

\* void resetEEPROM(): the result of saveEEPROM is dropped
resetEEPROM(G, commitOk) ==
  LET G1 == [G EXCEPT !.E.colors =
                        [i \in 0..COLOR_COUNT |-> IF i < COLOR_COUNT THEN resetColor ELSE @[i]],
                      !.E.npControllerSetting =
                        npControllerSettingType(0, NEOPIXEL_OFF, 0, 0)]
  IN saveEEPROM(G1, commitOk).G

\* colorRequest as it would be if it also learned a colour it does not find:
\* the colour is put in the first free palette slot and counted
colorRequest_Learns(G, rgbHex, brightness) ==
  LET result == checkValidColor(rgbHex, brightness)
  IN IF result # 0
     THEN LET G1 == [WithSetting(G, "programState", NEOPIXEL_COLOR)
                       EXCEPT !.changeNeopixel = 1]
              rgb == parseHexColor(rgbHex)
              color == colorType(rgb[1], rgb[2], rgb[3], brightness)
              colorIndex == findColor(G1.E, rgb, brightness)
              G2 == WithColor(G1, colorIndex, color)
              G3 == IF colorIndex = COLOR_COUNT /\ Setting(G2).colorCount < COLOR_COUNT
                    THEN WithSetting(WithColor(G2, Setting(G2).colorCount, color),
                                     "colorCount", U8(Setting(G2).colorCount + 1))
                    ELSE G2
          IN [G |-> WithSetting(G3, "activeColor", colorIndex), result |-> result]
     ELSE [G |-> G, result |-> result]

\* colorRequest as it would be if it did not look the colour up and always
\* used the scratch slot
colorRequest_AlwaysScratch(G, rgbHex, brightness) ==
  LET result == checkValidColor(rgbHex, brightness)
  IN IF result # 0
     THEN LET G1 == [WithSetting(G, "programState", NEOPIXEL_COLOR)
                       EXCEPT !.changeNeopixel = 1]
              rgb == parseHexColor(rgbHex)
              colorIndex == COLOR_COUNT
              G2 == WithColor(G1, colorIndex, colorType(rgb[1], rgb[2], rgb[3], brightness))
          IN [G |-> WithSetting(G2, "activeColor", colorIndex), result |-> result]
     ELSE [G |-> G, result |-> result]

\* colorRequest as it would be if it switched to the colour state before it
\* looked at the result of the validation
colorRequest_SwitchesFirst(G, rgbHex, brightness) ==
  LET result == checkValidColor(rgbHex, brightness)
      G1 == [WithSetting(G, "programState", NEOPIXEL_COLOR) EXCEPT !.changeNeopixel = 1]
  IN IF result # 0
     THEN LET rgb == parseHexColor(rgbHex)
              colorIndex == findColor(G1.E, rgb, brightness)
              G2 == WithColor(G1, colorIndex, colorType(rgb[1], rgb[2], rgb[3], brightness))
          IN [G |-> WithSetting(G2, "activeColor", colorIndex), result |-> result]
     ELSE [G |-> G1, result |-> result]

\* uint8_t colorRequest(char *rgbHex, uint8_t brightness)
colorRequest(G, rgbHex, brightness) ==
  LET result == checkValidColor(rgbHex, brightness)
  IN IF result # 0
     THEN LET G1 == [WithSetting(G, "programState", NEOPIXEL_COLOR)
                       EXCEPT !.changeNeopixel = 1]
              rgb == parseHexColor(rgbHex)
              colorIndex == findColor(G1.E, rgb, brightness)
              G2 == WithColor(G1, colorIndex, colorType(rgb[1], rgb[2], rgb[3], brightness))
          IN [G |-> WithSetting(G2, "activeColor", colorIndex), result |-> result]
     ELSE [G |-> G, result |-> result]

\* offRequest as it would be if it also wrote the record to the flash
offRequest_Persists(G) ==
  [G |-> saveEEPROM([WithSetting(G, "programState", NEOPIXEL_OFF)
                       EXCEPT !.changeNeopixel = 1], TRUE).G,
   result |-> 1]

\* offRequest as it would be if it also forgot the active colour
offRequest_ForgetsActive(G) ==
  [G |-> [WithSetting(WithSetting(G, "programState", NEOPIXEL_OFF), "activeColor", 0)
            EXCEPT !.changeNeopixel = 1],
   result |-> 1]

\* uint8_t offRequest()
offRequest(G) ==
  [G |-> [WithSetting(G, "programState", NEOPIXEL_OFF) EXCEPT !.changeNeopixel = 1],
   result |-> 1]

\* effectRequest as it would be if it left an effect alone that is already
\* running
effectRequest_KeepsRunning(G, effectName) ==
  LET effectIndex == checkValidEffect(effectName)
      running == /\ Setting(G).programState = NEOPIXEL_EFFECT
                 /\ Setting(G).activeEffect = effectIndex
  IN IF effectIndex < ARRAY_SIZE_effects
     THEN [G |-> IF running THEN G
                 ELSE WithSetting([WithSetting(G, "programState", NEOPIXEL_EFFECT)
                                     EXCEPT !.changeNeopixel = 1],
                                  "activeEffect", effectIndex),
           result |-> 1]
     ELSE [G |-> G, result |-> 0]

\* uint8_t effectRequest(char *effectName)
effectRequest(G, effectName) ==
  LET effectIndex == checkValidEffect(effectName)
  IN IF effectIndex < ARRAY_SIZE_effects
     THEN [G |-> WithSetting([WithSetting(G, "programState", NEOPIXEL_EFFECT)
                                EXCEPT !.changeNeopixel = 1],
                             "activeEffect", effectIndex),
           result |-> 1]
     ELSE [G |-> G, result |-> 0]

\* saveRequest as it would be without the test for an already saved colour
saveRequest_NoDuplicateTest(G, rgbHex, brightness, commitOk) ==
  IF Setting(G).colorCount = COLOR_COUNT THEN [G |-> G, result |-> 4]
  ELSE IF checkValidColor(rgbHex, brightness) # 0
  THEN LET rgb == parseHexColor(rgbHex)
           G1 == WithColor(G, Setting(G).colorCount,
                           colorType(rgb[1], rgb[2], rgb[3], brightness))
           G2 == WithSetting(G1, "colorCount", U8(Setting(G1).colorCount + 1))
       IN saveEEPROM(G2, commitOk)
  ELSE [G |-> G, result |-> 2]

\* saveRequest as it would be if the colour were validated before the
\* test for a full palette
saveRequest_ValidatesFirst(G, rgbHex, brightness, commitOk) ==
  IF checkValidColor(rgbHex, brightness) # 0
  THEN IF Setting(G).colorCount = COLOR_COUNT THEN [G |-> G, result |-> 4]
       ELSE LET rgb == parseHexColor(rgbHex)
                colorIndex == findColor(G.E, rgb, brightness)
            IN IF colorIndex < COLOR_COUNT THEN [G |-> G, result |-> 3]
               ELSE LET G1 == WithColor(G, Setting(G).colorCount,
                                        colorType(rgb[1], rgb[2], rgb[3], brightness))
                        G2 == WithSetting(G1, "colorCount", U8(Setting(G1).colorCount + 1))
                    IN saveEEPROM(G2, commitOk)
  ELSE [G |-> G, result |-> 2]

\* saveRequest as it would be if colorCount were incremented before the
\* entry is written
saveRequest_CountsFirst(G, rgbHex, brightness, commitOk) ==
  IF Setting(G).colorCount = COLOR_COUNT THEN [G |-> G, result |-> 4]
  ELSE IF checkValidColor(rgbHex, brightness) # 0
  THEN LET rgb == parseHexColor(rgbHex)
           colorIndex == findColor(G.E, rgb, brightness)
       IN IF colorIndex < COLOR_COUNT THEN [G |-> G, result |-> 3]
          ELSE LET G1 == WithSetting(G, "colorCount", U8(Setting(G).colorCount + 1))
                   G2 == WithColor(G1, Setting(G1).colorCount,
                                   colorType(rgb[1], rgb[2], rgb[3], brightness))
               IN saveEEPROM(G2, commitOk)
  ELSE [G |-> G, result |-> 2]

\* uint8_t saveRequest(char *rgbHex, uint8_t brightness)
\*   4 no more space, 2 invalid colour, 3 already saved,
\*   else the result of saveEEPROM (0 error during saving, 1 OK)
saveRequest(G, rgbHex, brightness, commitOk) ==
  IF Setting(G).colorCount = COLOR_COUNT THEN [G |-> G, result |-> 4]
  ELSE IF checkValidColor(rgbHex, brightness) # 0
  THEN LET rgb == parseHexColor(rgbHex)
           colorIndex == findColor(G.E, rgb, brightness)
       IN IF colorIndex < COLOR_COUNT THEN [G |-> G, result |-> 3]
          ELSE LET G1 == WithColor(G, Setting(G).colorCount,
                                   colorType(rgb[1], rgb[2], rgb[3], brightness))
                   G2 == WithSetting(G1, "colorCount", U8(Setting(G1).colorCount + 1))
               IN saveEEPROM(G2, commitOk)
  ELSE [G |-> G, result |-> 2]

\* the for loop of deleteRequest as it would be if it stopped one entry
\* early (i < colorCount - 1)
RECURSIVE ShiftDown_StopsEarly(_, _)
ShiftDown_StopsEarly(G, i) ==
  IF i < Setting(G).colorCount - 1
  THEN ShiftDown_StopsEarly(WithColor(G, i - 1, G.E.colors[i]), i + 1)
  ELSE G

\* the for loop of deleteRequest, from index i on:
\*   colors[i-1] = colors[i] for every i < colorCount
RECURSIVE ShiftDown(_, _)
ShiftDown(G, i) ==
  IF i < Setting(G).colorCount
  THEN ShiftDown(WithColor(G, i - 1, G.E.colors[i]), i + 1)
  ELSE G

\* deleteRequest as it would be if a colour that is not saved only skipped
\* the removal
deleteRequest_CommitsAnyway(G, rgbHex, brightness, commitOk) ==
  IF checkValidColor(rgbHex, brightness) # 0
  THEN LET rgb == parseHexColor(rgbHex)
           colorIndex == findColor(G.E, rgb, brightness)
       IN IF colorIndex = COLOR_COUNT THEN saveEEPROM(G, commitOk)
          ELSE LET G1 == WithColor(G, colorIndex, resetColor)
                   G2 == ShiftDown(G1, colorIndex + 1)
                   G3 == IF Setting(G2).activeColor = colorIndex
                         THEN WithSetting(G2, "activeColor", 0)
                         ELSE IF Setting(G2).activeColor > colorIndex
                         THEN WithSetting(G2, "activeColor", U8(Setting(G2).activeColor - 1))
                         ELSE G2
                   G4 == WithSetting(G3, "colorCount", U8(Setting(G3).colorCount - 1))
               IN saveEEPROM(G4, commitOk)
  ELSE [G |-> G, result |-> 2]

\* deleteRequest as it would be if it left activeColor alone
deleteRequest_KeepsActive(G, rgbHex, brightness, commitOk) ==
  IF checkValidColor(rgbHex, brightness) # 0
  THEN LET rgb == parseHexColor(rgbHex)
           colorIndex == findColor(G.E, rgb, brightness)
       IN IF colorIndex = COLOR_COUNT THEN [G |-> G, result |-> 3]
          ELSE LET G1 == WithColor(G, colorIndex, resetColor)
                   G2 == ShiftDown(G1, colorIndex + 1)
                   G4 == WithSetting(G2, "colorCount", U8(Setting(G2).colorCount - 1))
               IN saveEEPROM(G4, commitOk)
  ELSE [G |-> G, result |-> 2]

\* uint8_t deleteRequest(char *rgbHex, uint8_t brightness)
\*   2 invalid colour, 3 colour is not saved,
\*   else the result of saveEEPROM (0 error during saving, 1 OK)
deleteRequest(G, rgbHex, brightness, commitOk) ==
  IF checkValidColor(rgbHex, brightness) # 0
  THEN LET rgb == parseHexColor(rgbHex)
           colorIndex == findColor(G.E, rgb, brightness)
       IN IF colorIndex = COLOR_COUNT THEN [G |-> G, result |-> 3]
          ELSE LET G1 == WithColor(G, colorIndex, resetColor)
                   G2 == ShiftDown(G1, colorIndex + 1)
                   G3 == IF Setting(G2).activeColor = colorIndex
                         THEN WithSetting(G2, "activeColor", 0)
                         ELSE IF Setting(G2).activeColor > colorIndex
                         THEN WithSetting(G2, "activeColor", U8(Setting(G2).activeColor - 1))
                         ELSE G2
                   G4 == WithSetting(G3, "colorCount", U8(Setting(G3).colorCount - 1))
               IN saveEEPROM(G4, commitOk)
  ELSE [G |-> G, result |-> 2]

\* processClick as it would be if a single click did not go back to the
\* first colour from the scratch slot
processClick_PastScratch(G, clickType) ==
  LET G0 == [G EXCEPT !.changeNeopixel = 1]
      oldState == Setting(G).programState
  IN IF clickType = BUTTON_LONG_CLICK
     THEN WithSetting(G0, "programState", NEOPIXEL_OFF)
     ELSE IF clickType = BUTTON_SINGLE_CLICK
     THEN IF Setting(G0).colorCount = 0 THEN G0
          ELSE LET G1 == WithSetting(G0, "programState", NEOPIXEL_COLOR)
               IN IF oldState = NEOPIXEL_OFF \/ oldState = NEOPIXEL_EFFECT
                  THEN G1
                  ELSE IF Setting(G1).activeColor = Setting(G1).colorCount - 1
                  THEN WithSetting(WithSetting(G1, "programState", NEOPIXEL_OFF),
                                   "activeColor", 0)
                  ELSE WithSetting(G1, "activeColor", U8(Setting(G1).activeColor + 1))
     ELSE IF clickType = BUTTON_DOUBLE_CLICK
     THEN LET G1 == WithSetting(G0, "programState", NEOPIXEL_EFFECT)
          IN IF oldState = NEOPIXEL_OFF \/ oldState = NEOPIXEL_COLOR
             THEN G1
             ELSE IF Setting(G1).activeEffect = ARRAY_SIZE_effects - 1
             THEN WithSetting(WithSetting(G1, "programState", NEOPIXEL_OFF),
                              "activeEffect", 0)
             ELSE WithSetting(G1, "activeEffect", U8(Setting(G1).activeEffect + 1))
     ELSE G0

\* processClick as it would be if a single click on the last saved colour
\* went back to the first colour without turning the pixels off
processClick_NoOff(G, clickType) ==
  LET G0 == [G EXCEPT !.changeNeopixel = 1]
      oldState == Setting(G).programState
  IN IF clickType = BUTTON_LONG_CLICK
     THEN WithSetting(G0, "programState", NEOPIXEL_OFF)
     ELSE IF clickType = BUTTON_SINGLE_CLICK
     THEN IF Setting(G0).colorCount = 0 THEN G0
          ELSE LET G1 == WithSetting(G0, "programState", NEOPIXEL_COLOR)
               IN IF Setting(G1).activeColor = COLOR_COUNT
                  THEN WithSetting(G1, "activeColor", 0)
                  ELSE IF oldState = NEOPIXEL_OFF \/ oldState = NEOPIXEL_EFFECT
                  THEN G1
                  ELSE IF Setting(G1).activeColor = Setting(G1).colorCount - 1
                  THEN WithSetting(G1, "activeColor", 0)
                  ELSE WithSetting(G1, "activeColor", U8(Setting(G1).activeColor + 1))
     ELSE IF clickType = BUTTON_DOUBLE_CLICK
     THEN LET G1 == WithSetting(G0, "programState", NEOPIXEL_EFFECT)
          IN IF oldState = NEOPIXEL_OFF \/ oldState = NEOPIXEL_COLOR
             THEN G1
             ELSE IF Setting(G1).activeEffect = ARRAY_SIZE_effects - 1
             THEN WithSetting(WithSetting(G1, "programState", NEOPIXEL_OFF),
                              "activeEffect", 0)
             ELSE WithSetting(G1, "activeEffect", U8(Setting(G1).activeEffect + 1))
     ELSE G0

\* processClick as it would be if a double click at the last effect went
\* on with the first effect
processClick_EffectsGoRound(G, clickType) ==
  LET G0 == [G EXCEPT !.changeNeopixel = 1]
      oldState == Setting(G).programState
  IN IF clickType = BUTTON_LONG_CLICK
     THEN WithSetting(G0, "programState", NEOPIXEL_OFF)
     ELSE IF clickType = BUTTON_SINGLE_CLICK
     THEN IF Setting(G0).colorCount = 0 THEN G0
          ELSE LET G1 == WithSetting(G0, "programState", NEOPIXEL_COLOR)
               IN IF Setting(G1).activeColor = COLOR_COUNT
                  THEN WithSetting(G1, "activeColor", 0)
                  ELSE IF oldState = NEOPIXEL_OFF \/ oldState = NEOPIXEL_EFFECT
                  THEN G1
                  ELSE IF Setting(G1).activeColor = Setting(G1).colorCount - 1
                  THEN WithSetting(WithSetting(G1, "programState", NEOPIXEL_OFF),
                                   "activeColor", 0)
                  ELSE WithSetting(G1, "activeColor", U8(Setting(G1).activeColor + 1))
     ELSE IF clickType = BUTTON_DOUBLE_CLICK
     THEN LET G1 == WithSetting(G0, "programState", NEOPIXEL_EFFECT)
          IN IF oldState = NEOPIXEL_OFF \/ oldState = NEOPIXEL_COLOR
             THEN G1
             ELSE IF Setting(G1).activeEffect = ARRAY_SIZE_effects - 1
             THEN WithSetting(G1, "activeEffect", 0)
             ELSE WithSetting(G1, "activeEffect", U8(Setting(G1).activeEffect + 1))
     ELSE G0

\* processClick as it would be if a single click turned the strip off one
\* click after the last saved colour
processClick_WrapsLate(G, clickType) ==
  LET G0 == [G EXCEPT !.changeNeopixel = 1]
      oldState == Setting(G).programState
  IN IF clickType = BUTTON_LONG_CLICK
     THEN WithSetting(G0, "programState", NEOPIXEL_OFF)
     ELSE IF clickType = BUTTON_SINGLE_CLICK
     THEN IF Setting(G0).colorCount = 0 THEN G0
          ELSE LET G1 == WithSetting(G0, "programState", NEOPIXEL_COLOR)
               IN IF Setting(G1).activeColor = COLOR_COUNT
                  THEN WithSetting(G1, "activeColor", 0)
                  ELSE IF oldState = NEOPIXEL_OFF \/ oldState = NEOPIXEL_EFFECT
                  THEN G1
                  ELSE IF Setting(G1).activeColor = Setting(G1).colorCount
                  THEN WithSetting(WithSetting(G1, "programState", NEOPIXEL_OFF),
                                   "activeColor", 0)
                  ELSE WithSetting(G1, "activeColor", U8(Setting(G1).activeColor + 1))
     ELSE IF clickType = BUTTON_DOUBLE_CLICK
     THEN LET G1 == WithSetting(G0, "programState", NEOPIXEL_EFFECT)
          IN IF oldState = NEOPIXEL_OFF \/ oldState = NEOPIXEL_COLOR
             THEN G1
             ELSE IF Setting(G1).activeEffect = ARRAY_SIZE_effects - 1
             THEN WithSetting(WithSetting(G1, "programState", NEOPIXEL_OFF),
                              "activeEffect", 0)
             ELSE WithSetting(G1, "activeEffect", U8(Setting(G1).activeEffect + 1))
     ELSE G0

\* processClick as it would be if a single click from the off or the effect
\* state returned before the test for the scratch slot
processClick_ResumesFirst(G, clickType) ==
  LET G0 == [G EXCEPT !.changeNeopixel = 1]
      oldState == Setting(G).programState
  IN IF clickType = BUTTON_LONG_CLICK
     THEN WithSetting(G0, "programState", NEOPIXEL_OFF)
     ELSE IF clickType = BUTTON_SINGLE_CLICK
     THEN IF Setting(G0).colorCount = 0 THEN G0
          ELSE LET G1 == WithSetting(G0, "programState", NEOPIXEL_COLOR)
               IN IF oldState = NEOPIXEL_OFF \/ oldState = NEOPIXEL_EFFECT
                  THEN G1
                  ELSE IF Setting(G1).activeColor = COLOR_COUNT
                  THEN WithSetting(G1, "activeColor", 0)
                  ELSE IF Setting(G1).activeColor = Setting(G1).colorCount - 1
                  THEN WithSetting(WithSetting(G1, "programState", NEOPIXEL_OFF),
                                   "activeColor", 0)
                  ELSE WithSetting(G1, "activeColor", U8(Setting(G1).activeColor + 1))
     ELSE IF clickType = BUTTON_DOUBLE_CLICK
     THEN LET G1 == WithSetting(G0, "programState", NEOPIXEL_EFFECT)
          IN IF oldState = NEOPIXEL_OFF \/ oldState = NEOPIXEL_COLOR
             THEN G1
             ELSE IF Setting(G1).activeEffect = ARRAY_SIZE_effects - 1
             THEN WithSetting(WithSetting(G1, "programState", NEOPIXEL_OFF),
                              "activeEffect", 0)
             ELSE WithSetting(G1, "activeEffect", U8(Setting(G1).activeEffect + 1))
     ELSE G0

\* processClick as it would be if a single click on an empty palette
\* returned before anything was assigned
processClick_SilentNoOp(G, clickType) ==
  LET G0 == [G EXCEPT !.changeNeopixel = 1]
      oldState == Setting(G).programState
  IN IF clickType = BUTTON_LONG_CLICK
     THEN WithSetting(G0, "programState", NEOPIXEL_OFF)
     ELSE IF clickType = BUTTON_SINGLE_CLICK
     THEN IF Setting(G0).colorCount = 0 THEN G
          ELSE LET G1 == WithSetting(G0, "programState", NEOPIXEL_COLOR)
               IN IF Setting(G1).activeColor = COLOR_COUNT
                  THEN WithSetting(G1, "activeColor", 0)
                  ELSE IF oldState = NEOPIXEL_OFF \/ oldState = NEOPIXEL_EFFECT
                  THEN G1
                  ELSE IF Setting(G1).activeColor = Setting(G1).colorCount - 1
                  THEN WithSetting(WithSetting(G1, "programState", NEOPIXEL_OFF),
                                   "activeColor", 0)
                  ELSE WithSetting(G1, "activeColor", U8(Setting(G1).activeColor + 1))
     ELSE IF clickType = BUTTON_DOUBLE_CLICK
     THEN LET G1 == WithSetting(G0, "programState", NEOPIXEL_EFFECT)
          IN IF oldState = NEOPIXEL_OFF \/ oldState = NEOPIXEL_COLOR
             THEN G1
             ELSE IF Setting(G1).activeEffect = ARRAY_SIZE_effects - 1
             THEN WithSetting(WithSetting(G1, "programState", NEOPIXEL_OFF),
                              "activeEffect", 0)
             ELSE WithSetting(G1, "activeEffect", U8(Setting(G1).activeEffect + 1))
     ELSE G0

\* void processClick(uint8_t clickType)
processClick(G, clickType) ==
  LET G0 == [G EXCEPT !.changeNeopixel = 1]
      oldState == Setting(G).programState
  IN IF clickType = BUTTON_LONG_CLICK
     THEN WithSetting(G0, "programState", NEOPIXEL_OFF)
     ELSE IF clickType = BUTTON_SINGLE_CLICK
     THEN IF Setting(G0).colorCount = 0 THEN G0
          ELSE LET G1 == WithSetting(G0, "programState", NEOPIXEL_COLOR)
               IN IF Setting(G1).activeColor = COLOR_COUNT
                  THEN WithSetting(G1, "activeColor", 0)
                  ELSE IF oldState = NEOPIXEL_OFF \/ oldState = NEOPIXEL_EFFECT
                  THEN G1
                  ELSE IF Setting(G1).activeColor = Setting(G1).colorCount - 1
                  THEN WithSetting(WithSetting(G1, "programState", NEOPIXEL_OFF),
                                   "activeColor", 0)
                  ELSE WithSetting(G1, "activeColor", U8(Setting(G1).activeColor + 1))
     ELSE IF clickType = BUTTON_DOUBLE_CLICK
     THEN LET G1 == WithSetting(G0, "programState", NEOPIXEL_EFFECT)
          IN IF oldState = NEOPIXEL_OFF \/ oldState = NEOPIXEL_COLOR
             THEN G1
             ELSE IF Setting(G1).activeEffect = ARRAY_SIZE_effects - 1
             THEN WithSetting(WithSetting(G1, "programState", NEOPIXEL_OFF),
                              "activeEffect", 0)
             ELSE WithSetting(G1, "activeEffect", U8(Setting(G1).activeEffect + 1))
     ELSE G0

\* the EEPROM part of setup() as it would be if the record read were kept
\* without comparing its crc32
loadEEPROM_KeepsRecord(G, commitOk) ==
  IF G.flash.used
  THEN [G EXCEPT !.E = G.flash.data]
  ELSE resetEEPROM(G, commitOk)

\* the EEPROM part of setup(): the record is read when the flash holds one
\* and kept when its crc32 matches; otherwise resetEEPROM
loadEEPROM(G, commitOk) ==
  IF G.flash.used
  THEN LET G1 == [G EXCEPT !.E = G.flash.data]
           crc == calculateCRC32(RecordBytes(G1.E))
       IN IF crc = G1.E.crc32 THEN G1 ELSE resetEEPROM(G1, commitOk)
  ELSE resetEEPROM(G, commitOk)

(***************************************************************************)
(* What the outside world sends                                            *)
(***************************************************************************)
cRED   == <<"F","F","0","0","0","0">>
cGREEN == <<"0","0","F","F","0","0">>
cBLACK == <<"0","0","0","0","0","0">>

\* values of the color and brightness arguments of a request, the
\* brightness as String::toInt gives it (cBLACK is not a valid colour)
ColorArgs == {<<cRED, 50>>, <<cGREEN, 50>>, <<cGREEN, 100>>, <<cBLACK, 50>>}
\* values of the effect argument of a request: a name of the table and a
\* name that is not in it
EffectArgs == {effectsTable[1].effectName, <<"n","o","n","e">>}
\* payloads of an MQTT color message
ColorPayloads == {cGREEN \o <<"/","5","0">>}

\* parameters as a client may send them: colour texts that are too long,
\* too short or not hexadecimal, brightness values above 100 and above 255,
\* effect names that are longer or shorter than a name of the table
cLONG  == cRED \o <<"1","2","3","4">>
cSHORT == <<"F","F","0","0">>
cNOHEX == <<"G","G","0","0","0","0">>
InputColors == {cRED, cLONG, cSHORT, cNOHEX}
InputBrightness == {50, 101, 255, 356}
InputEffects == {effectsTable[1].effectName,
                 effectsTable[2].effectName \o <<"i","t","t","e","r">>,
                 <<"r","a","i","n">>, <<"n","o","n","e">>}
InputColorPayloads == {cRED \o <<"/","5","0">>, cRED \o <<"1","/","5","0">>,
                       cRED \o <<"/","1","0","1">>, cRED \o <<"/","3","5","6">>,
                       cNOHEX \o <<"/","5","0">>}
InputEffectPayloads == {effectsTable[2].effectName,
                        effectsTable[2].effectName \o <<"i","t","t","e","r">>,
                        <<"r","a","i","n">>}

\* number of requests and clicks handled in one run of Spec
MaxCmds == 2
\* number of requests handled in one run of SpecInput
MaxInputs == 1
\* number of requests handled in one run of SpecEffect
MaxEffects == 2
\* number of requests and clicks handled in one run of SpecButton
MaxClicks == 3
\* number of requests and clicks handled in one run of SpecPalette
MaxSteps == 4
\* number of outputs to the strip the history keeps
MaxOutputs == 2
\* number of entries the history keeps
LogLen == 3

(***************************************************************************)
(* State                                                                   *)
(***************************************************************************)
VARIABLES
  npControllerEEPROM,  \* the record in RAM
  changeNeopixel,      \* 1 if effect or color should be changed
  flash,               \* the record in the flash sector of the EEPROM emulation
  pc,                  \* "boot" before setup(), then the part of loop() that runs next
  log,                 \* history: what was handled since setup(), the latest last
  ncmd,                \* history: number of requests and clicks handled so far
  actualFrame,         \* the number of actual Frame for chosen effect
  lastNeopixelRefresh, \* time of last effect refresh: a uint32_t as millis
  shown,               \* history: what the pixels were given first since the latest
                       \* request, click or setup() (<<>>: nothing yet)
  lastCommit,          \* history: count and saved entries in RAM when the latest
                       \* save or delete committed (<<>>: none did, or it failed)
  outputs,             \* history: what the pixels were given since the latest
                       \* request, click or setup(), the latest MaxOutputs of it
  heat,                \* heat[] of fire2012(): 0 if every cell is 0, as when the
                       \* program starts, 1 if some cell is not
  connectAttempts,     \* i of mqttConnect(), as its latest run left it
  strip,               \* what the strip shows: what it was given last
  millis,              \* millis(): the time in ms since the program started, a
                       \* uint32_t, as the halves <<high 16 bits, low 16 bits>>
  waited               \* history: the ms that passed since the latest frame of an
                       \* effect was rendered, up to FramePeriod

vars == <<npControllerEEPROM, changeNeopixel, flash, pc, log, ncmd,
          actualFrame, lastNeopixelRefresh, shown, lastCommit, outputs,
          heat, connectAttempts, strip, millis, waited>>

\* a uint32_t as its halves, the + and the <= of two of them (the sum is
\* kept modulo 2^32)
Half == 65536
Zero32 == <<0, 0>>
Add32(a, b) == <<(a[1] + b[1] + (a[2] + b[2]) \div Half) % Half, (a[2] + b[2]) % Half>>
Le32(a, b) == a[1] < b[1] \/ (a[1] = b[1] /\ a[2] <= b[2])

\* what the strip is given: nothing, FastLED.clear, FastLED.showColor of a
\* palette entry, FastLED.show of a frame
Nothing == <<>>
ShowOff == <<"off">>
ShowColor(c) == <<"color", c>>
\* a frame of an effect, and the heat[] its function found if it is fire2012
ShowFrame(effect, frame, found) == <<"effect", effect, frame, found>>

Globals == [E |-> npControllerEEPROM, changeNeopixel |-> changeNeopixel, flash |-> flash]

SetGlobals(G) ==
  /\ npControllerEEPROM' = G.E
  /\ changeNeopixel' = G.changeNeopixel
  /\ flash' = G.flash

colorCount == npControllerEEPROM.npControllerSetting.colorCount
programState == npControllerEEPROM.npControllerSetting.programState
activeColor == npControllerEEPROM.npControllerSetting.activeColor
activeEffect == npControllerEEPROM.npControllerSetting.activeEffect
colors == npControllerEEPROM.colors

\* history entry: what was handled (op with the parameters arg as the
\* handler received them and the arguments str and num as the request
\* function got them), what it returned, what EEPROM.commit() would return
\* (commitOk; a failing commit is considered only where commit() is called),
\* the record in RAM, the flash and actualFrame before it, and
\* changeNeopixel before and after it
Entry(op, arg, str, num, result, commitOk) ==
  [op |-> op, arg |-> arg, str |-> str, num |-> num, result |-> result,
   commitOk |-> commitOk, before |-> npControllerEEPROM, flashBefore |-> flash,
   frameBefore |-> actualFrame,
   dirtyBefore |-> changeNeopixel, dirty |-> changeNeopixel']

\* count and saved entries [0, count) of a record
Palette(E) ==
  [count |-> E.npControllerSetting.colorCount,
   entries |-> [i \in 0..(E.npControllerSetting.colorCount - 1) |-> E.colors[i]]]

\* the history keeps the last LogLen entries
Append1(l, e) ==
  IF Len(l) < LogLen THEN Append(l, e) ELSE Append(Tail(l), e)

Handled(op, arg, str, num, result, commitOk) ==
  /\ log' = Append1(log, Entry(op, arg, str, num, result, commitOk))
  /\ ncmd' = ncmd + 1
  /\ shown' = <<>>
  /\ outputs' = <<>>
  /\ lastCommit' = IF op \in {"save", "delete"} /\ result = 1
                   THEN Palette(npControllerEEPROM')
                   ELSE IF op \in {"save", "delete"} /\ result = 0 THEN <<>>
                   ELSE lastCommit
  /\ UNCHANGED <<actualFrame, lastNeopixelRefresh, heat, connectAttempts, strip, millis, waited>>

(***************************************************************************)
(* What the flash may hold when the device is powered up                   *)
(***************************************************************************)
\* flash that never held a record
BlankFlash == [used |-> FALSE, data |-> ZeroRecord]

\* the colours earlier runs saved, in the order they saved them
SeedEntries == <<<<cRED, 50>>, <<cGREEN, 50>>, <<cRED, 100>>, <<cGREEN, 100>>>>

\* the globals after the first k colours of SeedEntries were saved, one
\* after the other, on a device started with blank flash
RECURSIVE SavedGlobals(_)
SavedGlobals(k) ==
  IF k = 0
  THEN loadEEPROM([E |-> ZeroRecord, changeNeopixel |-> 0, flash |-> BlankFlash], TRUE)
  ELSE saveRequest(SavedGlobals(k - 1), SeedEntries[k][1], SeedEntries[k][2], TRUE).G

\* the flash such a run leaves behind
CommittedFlash(k) == SavedGlobals(k).flash

\* a committed record (two saved colours, the second one shown, an unsaved
\* colour in the scratch slot) in which one stored byte no longer is what
\* was written
DamagedFlash ==
  LET E0 == [ZeroRecord EXCEPT
               !.npControllerSetting = npControllerSettingType(2, NEOPIXEL_COLOR, 1, 1),
               !.colors[0] = colorType(255, 0, 0, 50),
               !.colors[1] = colorType(0, 255, 0, 100),
               !.colors[COLOR_COUNT] = colorType(0, 255, 0, 50)]
      E1 == [E0 EXCEPT !.crc32 = calculateCRC32(RecordBytes(E0))]
  IN [used |-> TRUE, data |-> [E1 EXCEPT !.colors[1].brtns = 36]]

\* the flash at power-up: blank, damaged, or left by a run that saved two
\* colours, all but one of the colours the palette can hold, or all of them
InitialFlash ==
  {BlankFlash, DamagedFlash}
    \cup {CommittedFlash(k) : k \in {2, COLOR_COUNT - 1, COLOR_COUNT} \cap 1..Len(SeedEntries)}

Init ==
  /\ npControllerEEPROM = ZeroRecord
  /\ changeNeopixel = 0
  /\ flash \in InitialFlash
  /\ pc = "boot"
  /\ log = <<>>
  /\ ncmd = 0
  /\ actualFrame = 0
  /\ lastNeopixelRefresh = Zero32
  /\ millis = Zero32
  /\ waited = 0
  /\ shown = <<>>
  /\ outputs = <<>>
  /\ heat = 0
  /\ strip = ShowOff
  /\ connectAttempts = 0
  /\ lastCommit = IF flash \in {BlankFlash, DamagedFlash} THEN <<>> ELSE Palette(flash.data)

(***************************************************************************)
(* setup() and a restart                                                   *)
(***************************************************************************)
\* setup(): load the record and clear the strip (FastLED.clear(true));
\* loop() starts afterwards
Setup ==
  /\ pc = "boot"
  /\ \E commitOk \in BOOLEAN :
       /\ commitOk \/ loadEEPROM(Globals, TRUE) # loadEEPROM(Globals, FALSE)
       /\ SetGlobals(loadEEPROM(Globals, commitOk))
       /\ log' = <<Entry("setup", <<>>, <<>>, 0, 1, commitOk)>>
  /\ pc' = "http"
  /\ shown' = <<>>
  /\ outputs' = <<>>
  /\ connectAttempts' = 0
  /\ strip' = ShowOff
  /\ UNCHANGED <<ncmd, actualFrame, lastNeopixelRefresh, lastCommit, heat, millis, waited>>

\* power loss or ESP.reset(): the RAM is lost, the flash is kept (the strip
\* is dark or keeps its picture until setup() clears it, which no part of
\* loop() sees: it is taken as dark)
Restart ==
  /\ pc # "boot"
  /\ npControllerEEPROM' = ZeroRecord
  /\ changeNeopixel' = 0
  /\ pc' = "boot"
  /\ log' = <<>>
  /\ actualFrame' = 0
  /\ lastNeopixelRefresh' = Zero32
  /\ millis' = Zero32
  /\ waited' = 0
  /\ shown' = <<>>
  /\ outputs' = <<>>
  /\ heat' = 0
  /\ strip' = ShowOff
  /\ connectAttempts' = 0
  /\ UNCHANGED <<flash, ncmd, lastCommit>>

(***************************************************************************)
(* loop(): server.handleClient()                                           *)
(***************************************************************************)
\* no request is pending
HttpIdle ==
  /\ pc = "http"
  /\ pc' = "mqtt"
  /\ UNCHANGED <<npControllerEEPROM, changeNeopixel, flash, log, ncmd,
                 actualFrame, lastNeopixelRefresh, shown, lastCommit, outputs,
                 heat, connectAttempts, strip, millis, waited>>

\* GET /api?all=1
HttpGetAll ==
  /\ pc = "http"
  /\ pc' = "mqtt"
  /\ UNCHANGED <<npControllerEEPROM, changeNeopixel, flash>>
  /\ Handled("all", <<>>, <<>>, 0, 1, TRUE)

\* GET /api?color=RRGGBB&brightness=xx
HttpGetColor(color, brightnessArg) ==
  /\ pc = "http"
  /\ LET rgbHex == Truncate(color, 6)
         brightness == U8(brightnessArg)
         r == colorRequest(Globals, rgbHex, brightness)
     IN /\ SetGlobals(r.G)
        /\ Handled("color", <<color, brightnessArg>>, rgbHex, brightness, r.result, TRUE)
  /\ pc' = "mqtt"

\* GET /api?off=1
HttpGetOff ==
  /\ pc = "http"
  /\ LET r == offRequest(Globals)
     IN /\ SetGlobals(r.G)
        /\ Handled("off", <<>>, <<>>, 0, r.result, TRUE)
  /\ pc' = "mqtt"

\* GET /api?effect=effect_name
HttpGetEffect(effect) ==
  /\ pc = "http"
  /\ LET effectName == Truncate(effect, 9)
         r == effectRequest(Globals, effectName)
     IN /\ SetGlobals(r.G)
        /\ Handled("effect", <<effect>>, effectName, 0, r.result, TRUE)
  /\ pc' = "mqtt"

\* POST /api with headers save=1, color, brightness
HttpPostSave(color, brightnessArg) ==
  /\ pc = "http"
  /\ \E commitOk \in BOOLEAN :
       LET rgbHex == Truncate(color, 6)
           brightness == U8(brightnessArg)
           r == saveRequest(Globals, rgbHex, brightness, commitOk)
       IN /\ commitOk \/ r # saveRequest(Globals, rgbHex, brightness, TRUE)
          /\ SetGlobals(r.G)
          /\ Handled("save", <<color, brightnessArg>>, rgbHex, brightness, r.result, commitOk)
  /\ pc' = "mqtt"

\* POST /api with headers delete=1, color, brightness
HttpPostDelete(color, brightnessArg) ==
  /\ pc = "http"
  /\ \E commitOk \in BOOLEAN :
       LET rgbHex == Truncate(color, 6)
           brightness == U8(brightnessArg)
           r == deleteRequest(Globals, rgbHex, brightness, commitOk)
       IN /\ commitOk \/ r # deleteRequest(Globals, rgbHex, brightness, TRUE)
          /\ SetGlobals(r.G)
          /\ Handled("delete", <<color, brightnessArg>>, rgbHex, brightness, r.result, commitOk)
  /\ pc' = "mqtt"

(***************************************************************************)
(* loop(): mqtt_client.loop() and mqttCallback                             *)
(***************************************************************************)
\* atoi: the value of the leading run of decimal digits from position k on
RECURSIVE ScanDec(_, _, _)
ScanDec(s, k, acc) ==
  IF k > Len(s) \/ ~isdigit(s[k]) THEN acc
  ELSE ScanDec(s, k + 1, acc * 10 + DecVal(s[k]))

\* the number of failed attempts after which mqttConnect() still waits and
\* tries again (if (i <= 10))
MQTT_RETRIES == 10

\* mqtt_client.connected() is false: mqttConnect() starts with i = 0
MqttConnect ==
  /\ pc = "mqtt"
  /\ pc' = "connect"
  /\ connectAttempts' = 0
  /\ UNCHANGED <<npControllerEEPROM, changeNeopixel, flash, log, ncmd,
                 actualFrame, lastNeopixelRefresh, shown, lastCommit, outputs,
                 heat, strip, millis, waited>>

\* one round of the while loop of mqttConnect(): i++, then
\* mqtt_client.connect(); connected is what it returns.  After a failure
\* Serial.printf("failed, rc=%s\n", mqtt_client.state()) hands the int
\* state to %s, which is undefined: fault tells whether reading a string at
\* that address stops the program (the device then restarts) or the call
\* returns.  After it the round waits 500 ms if i <= 10 and calls
\* ESP.reset() otherwise.  A restart loses the RAM and keeps the flash.
MqttAttempt(connected, fault) ==
  /\ pc = "connect"
  /\ LET i == (connectAttempts + 1) % 256
         restarts == ~connected /\ (fault \/ i > MQTT_RETRIES)
     IN /\ connectAttempts' = i
        /\ pc' = IF connected THEN "loop" ELSE IF restarts THEN "boot" ELSE "connect"
        /\ npControllerEEPROM' = IF restarts THEN ZeroRecord ELSE npControllerEEPROM
        /\ changeNeopixel' = IF restarts THEN 0 ELSE changeNeopixel
        /\ log' = IF restarts THEN <<>> ELSE log
        /\ actualFrame' = IF restarts THEN 0 ELSE actualFrame
        /\ lastNeopixelRefresh' = IF restarts THEN Zero32 ELSE lastNeopixelRefresh
        /\ millis' = IF restarts THEN Zero32 ELSE millis
        /\ waited' = IF restarts THEN 0 ELSE waited
        /\ shown' = IF restarts THEN <<>> ELSE shown
        /\ outputs' = IF restarts THEN <<>> ELSE outputs
        /\ heat' = IF restarts THEN 0 ELSE heat
        /\ strip' = IF restarts THEN ShowOff ELSE strip
  /\ UNCHANGED <<flash, ncmd, lastCommit>>

\* no message is pending
MqttIdle ==
  /\ pc \in {"mqtt", "loop"}
  /\ pc' = "button"
  /\ UNCHANGED <<npControllerEEPROM, changeNeopixel, flash, log, ncmd,
                 actualFrame, lastNeopixelRefresh, shown, lastCommit, outputs,
                 heat, connectAttempts, strip, millis, waited>>

\* topic .../cmd/all
MqttAll ==
  /\ pc \in {"mqtt", "loop"}
  /\ pc' = "button"
  /\ UNCHANGED <<npControllerEEPROM, changeNeopixel, flash>>
  /\ Handled("all", <<>>, <<>>, 0, 1, TRUE)

\* topic .../cmd/color, payload RRGGBB/xx (at least eight characters, so
\* that &payloadMessage[7] lies inside the message)
MqttColor(payload) ==
  /\ pc \in {"mqtt", "loop"}
  /\ Len(payload) >= 8
  /\ LET payloadMessage == Truncate(payload, 14)
         rgbHex == Truncate(payloadMessage, 6)
         brightness == U8(ScanDec(payloadMessage, 8, 0))
         r == colorRequest(Globals, rgbHex, brightness)
     IN /\ SetGlobals(r.G)
        /\ Handled("color", <<payload>>, rgbHex, brightness, r.result, TRUE)
  /\ pc' = "button"

\* topic .../cmd/off
MqttOff ==
  /\ pc \in {"mqtt", "loop"}
  /\ LET r == offRequest(Globals)
     IN /\ SetGlobals(r.G)
        /\ Handled("off", <<>>, <<>>, 0, r.result, TRUE)
  /\ pc' = "button"

\* topic .../cmd/effect, payload effect_name
MqttEffect(payload) ==
  /\ pc \in {"mqtt", "loop"}
  /\ LET payloadMessage == Truncate(payload, 14)
         r == effectRequest(Globals, payloadMessage)
     IN /\ SetGlobals(r.G)
        /\ Handled("effect", <<payload>>, payloadMessage, 0, r.result, TRUE)
  /\ pc' = "button"

\* what findLastIndex() is taken to give where its loop does not end
NoReturn == 256

\* uint8_t findLastIndex(char *str, char x): the loop starts at index
\* len - 1 with i a uint8_t, so i >= 0 holds always and i-- goes from 0 to
\* 255: index i is read in round U8(len - 1 - i), and the loop returns the
\* index that holds x and is read first.  str[i] lies behind the '\0' of
\* the string for i > strlen(str), and reading it is undefined: behind is
\* the set of those indices at which the memory holds x.  Where none of the
\* 256 indices holds x the loop does not end (return -1 is never reached).
findLastIndex(str, x, behind) ==
  LET len == U8(strlen(str))
      round(i) == U8(U8(len - 1) - i)
      holds == {i \in 0..255 : (i < strlen(str) /\ str[i + 1] = x)
                                  \/ (i > strlen(str) /\ i \in behind)}
  IN IF holds = {} THEN NoReturn
     ELSE CHOOSE i \in holds : \A j \in holds : round(i) <= round(j)

\* mqttCallback() of a message with this topic and payload.  lastToken is a
\* uint8_t, so lastToken == -1 compares a number of 0..255 with -1;
\* strlen(topic) - (lastToken+1) is unsigned, so it is a large number where
\* lastToken+1 is more than strlen(topic).  Where findLastIndex() does not
\* return, loop() does not go on ("hang").
MqttMessage(topic, payload, behind) ==
  /\ pc \in {"mqtt", "loop"}
  /\ LET lastToken == findLastIndex(topic, "/", behind)
         wrong == \/ lastToken = -1
                  \/ strlen(topic) < lastToken + 1
                  \/ strlen(topic) - (lastToken + 1) > 6
         cmdType == SubSeq(topic, lastToken + 2, Len(topic))
     IN IF lastToken = NoReturn
        THEN /\ pc' = "hang"
             /\ UNCHANGED <<npControllerEEPROM, changeNeopixel, flash, log, ncmd,
                            actualFrame, lastNeopixelRefresh, shown, lastCommit,
                            outputs, heat, connectAttempts, strip, millis, waited>>
        ELSE IF wrong
        THEN /\ pc' = "button"
             /\ UNCHANGED <<npControllerEEPROM, changeNeopixel, flash>>
             /\ Handled("wrong", <<topic>>, <<>>, lastToken, 0, TRUE)
        ELSE CASE cmdType = <<"a","l","l">> -> MqttAll
               [] cmdType = <<"c","o","l","o","r">> -> MqttColor(payload)
               [] cmdType = <<"o","f","f">> -> MqttOff
               [] cmdType = <<"e","f","f","e","c","t">> -> MqttEffect(payload)
               [] OTHER ->
                    /\ pc' = "button"
                    /\ UNCHANGED <<npControllerEEPROM, changeNeopixel, flash>>
                    /\ Handled("unknown", <<topic>>, <<>>, lastToken, 0, TRUE)

(***************************************************************************)
(* loop(): the button                                                      *)
(***************************************************************************)
\* myButton reports no click
ButtonIdle ==
  /\ pc = "button"
  /\ pc' = "sched"
  /\ UNCHANGED <<npControllerEEPROM, changeNeopixel, flash, log, ncmd,
                 actualFrame, lastNeopixelRefresh, shown, lastCommit, outputs,
                 heat, connectAttempts, strip, millis, waited>>

\* the click as it would be handled if the button were read before
\* server.handleClient()
Click_BeforeHttp(clickType) ==
  /\ pc = "http"
  /\ SetGlobals(processClick(Globals, clickType))
  /\ Handled("click", <<>>, <<>>, clickType, 1, TRUE)
  /\ pc' = "http"

\* myButton reports a single, double or long click
Click(clickType) ==
  /\ pc = "button"
  /\ SetGlobals(processClick(Globals, clickType))
  /\ Handled("click", <<>>, <<>>, clickType, 1, TRUE)
  /\ pc' = "sched"

(***************************************************************************)
(* loop(): Handle Neopixels                                                *)
(***************************************************************************)
\* what a pass gives the pixels: nothing, the off state, a colour entry, or
\* a frame of an effect

\* the pass as it would be if actualFrame went back to 0 one frame later
NeopixelPass_OneFrameMore(elapsed, heatAfter) ==
  /\ pc = "sched"
  /\ LET restart == programState = NEOPIXEL_EFFECT /\ changeNeopixel # 0
         refresh == IF restart THEN Zero32 ELSE lastNeopixelRefresh
         frame == IF restart THEN 0 ELSE actualFrame
         timeForFrame == programState = NEOPIXEL_EFFECT /\ elapsed
         keepsHeat == effects[activeEffect + 1].effectName = fire2012
         given == CASE programState = NEOPIXEL_OFF ->
                         IF changeNeopixel # 0 THEN ShowOff ELSE Nothing
                    [] programState = NEOPIXEL_COLOR ->
                         IF changeNeopixel # 0 THEN ShowColor(colors[activeColor])
                         ELSE Nothing
                    [] programState = NEOPIXEL_EFFECT ->
                         IF timeForFrame
                         THEN ShowFrame(activeEffect, frame,
                                        IF keepsHeat THEN heat ELSE 0)
                         ELSE Nothing
                    [] OTHER -> Nothing
     IN /\ actualFrame' = IF timeForFrame
                          THEN IF frame + 1 > effects[activeEffect + 1].effectFrames
                               THEN 0 ELSE frame + 1
                          ELSE frame
        /\ lastNeopixelRefresh' = IF timeForFrame THEN millis ELSE refresh
        /\ waited' = IF timeForFrame THEN 0 ELSE waited
        /\ heat' = IF timeForFrame /\ keepsHeat THEN heatAfter ELSE heat
        /\ strip' = IF given = Nothing THEN strip ELSE given
        /\ shown' = IF shown = Nothing THEN given ELSE shown
        /\ outputs' = IF given = Nothing THEN outputs
                      ELSE IF Len(outputs) < MaxOutputs THEN Append(outputs, given)
                      ELSE Append(Tail(outputs), given)
  /\ changeNeopixel' = 0
  /\ pc' = "http"
  /\ UNCHANGED <<npControllerEEPROM, flash, log, ncmd, lastCommit, connectAttempts, millis>>

\* the pass as it would be if changeNeopixel were not cleared at its end
NeopixelPass_KeepsFlag(elapsed, heatAfter) ==
  /\ pc = "sched"
  /\ LET restart == programState = NEOPIXEL_EFFECT /\ changeNeopixel # 0
         refresh == IF restart THEN Zero32 ELSE lastNeopixelRefresh
         frame == IF restart THEN 0 ELSE actualFrame
         timeForFrame == programState = NEOPIXEL_EFFECT /\ elapsed
         keepsHeat == effects[activeEffect + 1].effectName = fire2012
         given == CASE programState = NEOPIXEL_OFF ->
                         IF changeNeopixel # 0 THEN ShowOff ELSE Nothing
                    [] programState = NEOPIXEL_COLOR ->
                         IF changeNeopixel # 0 THEN ShowColor(colors[activeColor])
                         ELSE Nothing
                    [] programState = NEOPIXEL_EFFECT ->
                         IF timeForFrame
                         THEN ShowFrame(activeEffect, frame,
                                        IF keepsHeat THEN heat ELSE 0)
                         ELSE Nothing
                    [] OTHER -> Nothing
     IN /\ actualFrame' = IF timeForFrame
                          THEN IF frame + 1 >= effects[activeEffect + 1].effectFrames
                               THEN 0 ELSE frame + 1
                          ELSE frame
        /\ lastNeopixelRefresh' = IF timeForFrame THEN millis ELSE refresh
        /\ waited' = IF timeForFrame THEN 0 ELSE waited
        /\ heat' = IF timeForFrame /\ keepsHeat THEN heatAfter ELSE heat
        /\ strip' = IF given = Nothing THEN strip ELSE given
        /\ shown' = IF shown = Nothing THEN given ELSE shown
        /\ outputs' = IF given = Nothing THEN outputs
                      ELSE IF Len(outputs) < MaxOutputs THEN Append(outputs, given)
                      ELSE Append(Tail(outputs), given)
  /\ changeNeopixel' = changeNeopixel
  /\ pc' = "http"
  /\ UNCHANGED <<npControllerEEPROM, flash, log, ncmd, lastCommit, connectAttempts, millis>>

\* the switch on programState and the clearing of changeNeopixel; elapsed
\* tells whether lastNeopixelRefresh + 1000/EFFECT_FRAMES_PER_SECOND <=
\* millis() holds, heatAfter what a frame of fire2012() leaves in heat[]
\* (it cools every cell and ignites new sparks at random)
NeopixelPass(elapsed, heatAfter) ==
  /\ pc = "sched"
  /\ LET restart == programState = NEOPIXEL_EFFECT /\ changeNeopixel # 0
         refresh == IF restart THEN Zero32 ELSE lastNeopixelRefresh
         frame == IF restart THEN 0 ELSE actualFrame
         timeForFrame == programState = NEOPIXEL_EFFECT /\ elapsed
         keepsHeat == effects[activeEffect + 1].effectName = fire2012
         given == CASE programState = NEOPIXEL_OFF ->
                         IF changeNeopixel # 0 THEN ShowOff ELSE Nothing
                    [] programState = NEOPIXEL_COLOR ->
                         IF changeNeopixel # 0 THEN ShowColor(colors[activeColor])
                         ELSE Nothing
                    [] programState = NEOPIXEL_EFFECT ->
                         IF timeForFrame
                         THEN ShowFrame(activeEffect, frame,
                                        IF keepsHeat THEN heat ELSE 0)
                         ELSE Nothing
                    [] OTHER -> Nothing
     IN /\ actualFrame' = IF timeForFrame
                          THEN IF frame + 1 >= effects[activeEffect + 1].effectFrames
                               THEN 0 ELSE frame + 1
                          ELSE frame
        /\ lastNeopixelRefresh' = IF timeForFrame THEN millis ELSE refresh
        /\ waited' = IF timeForFrame THEN 0 ELSE waited
        /\ heat' = IF timeForFrame /\ keepsHeat THEN heatAfter ELSE heat
        /\ strip' = IF given = Nothing THEN strip ELSE given
        /\ shown' = IF shown = Nothing THEN given ELSE shown
        /\ outputs' = IF given = Nothing THEN outputs
                      ELSE IF Len(outputs) < MaxOutputs THEN Append(outputs, given)
                      ELSE Append(Tail(outputs), given)
  /\ changeNeopixel' = 0
  /\ pc' = "http"
  /\ UNCHANGED <<npControllerEEPROM, flash, log, ncmd, lastCommit, connectAttempts, millis>>

\* a pass in which it is not time for a new frame (with lastNeopixelRefresh
\* 0 the test is 1000/EFFECT_FRAMES_PER_SECOND <= millis(), which is false
\* just after millis() went round to 0)
HandleNeopixels == NeopixelPass(FALSE, heat)

\* a pass of the effect state in which it is time for a new frame
HandleNeopixelsFrame ==
  /\ programState = NEOPIXEL_EFFECT
  /\ \E heatAfter \in {0, 1} : NeopixelPass(TRUE, heatAfter)

(***************************************************************************)
(* loop(): the clock of the effect frames                                  *)
(***************************************************************************)
\* 1000/EFFECT_FRAMES_PER_SECOND: the ms from one frame to the next
FramePeriod == 1000 \div EFFECT_FRAMES_PER_SECOND

\* d ms pass before millis() is read in the Handle Neopixels part (millis()
\* goes round to 0 after 2^32 - 1)
Tick(d) ==
  /\ pc = "sched"
  /\ millis' = Add32(millis, d)
  /\ waited' = IF d[1] > 0 \/ waited + d[2] >= FramePeriod THEN FramePeriod
               ELSE waited + d[2]
  /\ UNCHANGED <<npControllerEEPROM, changeNeopixel, flash, pc, log, ncmd,
                 actualFrame, lastNeopixelRefresh, shown, lastCommit, outputs,
                 heat, connectAttempts, strip>>

\* the test of the effect case, (lastNeopixelRefresh +
\* (1000/EFFECT_FRAMES_PER_SECOND)) <= millis(), in uint32_t, with
\* lastNeopixelRefresh as the case has it when it gets to the test
TimeForFrame ==
  LET restart == programState = NEOPIXEL_EFFECT /\ changeNeopixel # 0
      refresh == IF restart THEN Zero32 ELSE lastNeopixelRefresh
  IN Le32(Add32(refresh, <<0, FramePeriod>>), millis)

\* a pass that reads the clock (lastNeopixelRefresh = millis() after the
\* frame is taken to read the same ms as the test)
HandleNeopixelsClock == NeopixelPass(TimeForFrame, heat)

(***************************************************************************)
(* Specifications                                                          *)
(***************************************************************************)
ClickTypes == {BUTTON_SINGLE_CLICK, BUTTON_DOUBLE_CLICK, BUTTON_LONG_CLICK}

\* every handler, at most MaxCmds requests and clicks in a run; the run ends
\* at the top of loop() once they are used up
Next ==
  \/ Setup
  \/ ncmd < MaxCmds /\ Restart
  \/ ncmd < MaxCmds /\ HttpIdle
  \/ ncmd < MaxCmds /\ HttpGetAll
  \/ ncmd < MaxCmds /\ \E a \in ColorArgs : HttpGetColor(a[1], a[2])
  \/ ncmd < MaxCmds /\ HttpGetOff
  \/ ncmd < MaxCmds /\ \E effect \in EffectArgs : HttpGetEffect(effect)
  \/ ncmd < MaxCmds /\ \E a \in ColorArgs : HttpPostSave(a[1], a[2])
  \/ ncmd < MaxCmds /\ \E a \in ColorArgs : HttpPostDelete(a[1], a[2])
  \/ MqttIdle
  \/ ncmd < MaxCmds /\ MqttAll
  \/ ncmd < MaxCmds /\ \E payload \in ColorPayloads : MqttColor(payload)
  \/ ncmd < MaxCmds /\ MqttOff
  \/ ncmd < MaxCmds /\ MqttEffect(effectsTable[NUM_EFFECTS].effectName)
  \/ ButtonIdle
  \/ ncmd < MaxCmds /\ \E clickType \in ClickTypes : Click(clickType)
  \/ HandleNeopixels

Spec == Init /\ [][Next]_vars

\* the button with the requests that select what is shown, at most
\* MaxClicks requests and clicks in a run
NextButton ==
  \/ Setup
  \/ ncmd < MaxClicks /\ HttpIdle
  \/ ncmd < MaxClicks /\ \E a \in {<<cGREEN, 50>>, <<cGREEN, 100>>} : HttpGetColor(a[1], a[2])
  \/ ncmd < MaxClicks /\ HttpGetOff
  \/ ncmd < MaxClicks /\ HttpGetEffect(effects[ARRAY_SIZE_effects].effectName)
  \/ MqttIdle
  \/ ButtonIdle
  \/ ncmd < MaxClicks /\ \E clickType \in ClickTypes : Click(clickType)
  \/ HandleNeopixels

SpecButton == Init /\ [][NextButton]_vars

\* the handlers of requests with parameters, with the parameters a client
\* may send, at most MaxInputs requests in a run
NextInput ==
  \/ Setup
  \/ ncmd < MaxInputs /\ HttpIdle
  \/ ncmd < MaxInputs /\ \E color \in InputColors, brightnessArg \in InputBrightness :
                            HttpGetColor(color, brightnessArg)
  \/ ncmd < MaxInputs /\ \E effect \in InputEffects : HttpGetEffect(effect)
  \/ ncmd < MaxInputs /\ \E color \in InputColors, brightnessArg \in InputBrightness :
                            HttpPostSave(color, brightnessArg)
  \/ ncmd < MaxInputs /\ \E color \in InputColors, brightnessArg \in InputBrightness :
                            HttpPostDelete(color, brightnessArg)
  \/ MqttIdle
  \/ ncmd < MaxInputs /\ \E payload \in InputColorPayloads : MqttColor(payload)
  \/ ncmd < MaxInputs /\ \E payload \in InputEffectPayloads : MqttEffect(payload)
  \/ ButtonIdle
  \/ HandleNeopixels

SpecInput == Init /\ [][NextInput]_vars

\* the requests that start and end an effect and the passes that render
\* its frames, at most MaxEffects requests in a run
NextEffect ==
  \/ Setup
  \/ ncmd < MaxEffects /\ HttpIdle
  \/ ncmd < MaxEffects /\ HttpGetColor(cGREEN, 50)
  \/ ncmd < MaxEffects /\ \E k \in {1, ARRAY_SIZE_effects} : HttpGetEffect(effects[k].effectName)
  \/ MqttIdle
  \/ ncmd < MaxEffects /\ MqttEffect(effectsTable[1].effectName)
  \/ ButtonIdle
  \/ ncmd < MaxEffects /\ Click(BUTTON_DOUBLE_CLICK)
  \/ HandleNeopixels
  \/ HandleNeopixelsFrame

SpecEffect == Init /\ [][NextEffect]_vars

\* an unsaved colour is set, a saved colour is deleted, the strip is turned
\* off and the button is clicked, at most MaxSteps requests and clicks in a
\* run
NextPalette ==
  \/ Setup
  \/ ncmd < MaxSteps /\ HttpIdle
  \/ ncmd < MaxSteps /\ HttpGetColor(cGREEN, 100)
  \/ ncmd < MaxSteps /\ HttpGetOff
  \/ ncmd < MaxSteps /\ HttpPostDelete(cRED, 50)
  \/ MqttIdle
  \/ ButtonIdle
  \/ ncmd < MaxSteps /\ \E clickType \in ClickTypes : Click(clickType)
  \/ HandleNeopixels

SpecPalette == Init /\ [][NextPalette]_vars

\* the connection is lost and made again, or not, between requests, at
\* most MaxInputs requests in a run
NextConnect ==
  \/ Setup
  \/ HttpIdle
  \/ ncmd < MaxInputs /\ HttpGetColor(cGREEN, 50)
  \/ MqttConnect
  \/ \E connected \in BOOLEAN, fault \in BOOLEAN : MqttAttempt(connected, fault)
  \/ MqttIdle
  \/ ncmd < MaxInputs /\ MqttOff
  \/ ButtonIdle
  \/ ncmd < MaxInputs /\ Click(BUTTON_SINGLE_CLICK)
  \/ HandleNeopixels

SpecConnect == Init /\ [][NextConnect]_vars

\* requests over HTTP and MQTT and clicks in the same and in different
\* iterations of loop(), and the passes that render (of an effect its
\* first frame), at most MaxClicks requests and clicks in a run
NextOrder ==
  \/ Setup
  \/ ncmd < MaxClicks /\ HttpIdle
  \/ ncmd < MaxClicks /\ HttpGetColor(cGREEN, 100)
  \/ MqttIdle
  \/ ncmd < MaxClicks /\ MqttEffect(effectsTable[1].effectName)
  \/ ButtonIdle
  \/ ncmd < MaxClicks /\ \E clickType \in ClickTypes : Click(clickType)
  \/ HandleNeopixels
  \/ shown = Nothing /\ HandleNeopixelsFrame

SpecOrder == Init /\ [][NextOrder]_vars

\* an effect runs while colours are saved and deleted and the button is
\* clicked once, at most MaxEffects requests and clicks in a run
NextRunning ==
  \/ Setup
  \/ ncmd < MaxEffects /\ HttpIdle
  \/ ncmd < MaxEffects /\ HttpGetEffect(effects[1].effectName)
  \/ ncmd < MaxEffects /\ HttpPostSave(cRED, 50)
  \/ ncmd < MaxEffects /\ HttpPostDelete(cRED, 50)
  \/ MqttIdle
  \/ ButtonIdle
  \/ ncmd < MaxEffects /\ Click(BUTTON_SINGLE_CLICK)
  \/ HandleNeopixels
  \/ HandleNeopixelsFrame

SpecRunning == Init /\ [][NextRunning]_vars

\* an effect by the clock: the device is idle until two frame periods before
\* millis() goes round (the passes of that time find nothing to do), and
\* the run is followed in steps of half a frame period and of a frame period
\* until two frame periods after millis() went round
ShortTicks == {<<0, FramePeriod \div 2>>, <<0, FramePeriod>>}
AlmostRound == <<Half - 1, Half - 2 * FramePeriod>>
NearRound(t) == t[1] = Half - 1 \/ (t[1] = 0 /\ t[2] < 2 * FramePeriod)

NextClock ==
  \/ Setup
  \/ HttpIdle
  \/ ncmd < MaxInputs /\ HttpGetEffect(effects[1].effectName)
  \/ MqttIdle
  \/ ButtonIdle
  \/ /\ millis = Zero32
     /\ programState # NEOPIXEL_EFFECT
     /\ changeNeopixel = 0
     /\ Tick(AlmostRound)
  \/ NearRound(millis) /\ \E d \in ShortTicks : Tick(d)
  \/ HandleNeopixelsClock

SpecClock == Init /\ [][NextClock]_vars

\* the messages of MQTT by their topics, at most MaxInputs messages in a
\* run: topics of the four commands, of no command, with more than six
\* characters behind the last '/', with nothing behind it, without '/' and
\* the empty one; behind the topic the memory holds no '/', or one at the
\* index next to the '\0' or at index 255
InputTopics ==
  {<<"c","/","a","l","l">>, <<"c","/","o","f","f">>,
   <<"n","/","c","/","c","o","l","o","r">>, <<"c","/","e","f","f","e","c","t">>,
   <<"c","/","s","a","v","e">>, <<"c","/","r","e","s","t","a","r","t">>,
   <<"c","/">>, <<"o","f","f">>, <<>>}
InputBehind(topic) == {{}, {Len(topic) + 1}, {255}}

NextTopic ==
  \/ Setup
  \/ HttpIdle
  \/ MqttIdle
  \/ ncmd < MaxInputs /\ \E topic \in InputTopics :
                            \E behind \in InputBehind(topic),
                               payload \in InputColorPayloads \cup InputEffectPayloads :
                              MqttMessage(topic, payload, behind)
  \/ ButtonIdle
  \/ HandleNeopixels

SpecTopic == Init /\ [][NextTopic]_vars

(***************************************************************************)
(* Properties.  They read the history: Last is the request, click or       *)
(* setup() handled most recently, Prev the one handled before it; the      *)
(* state variables hold what Last left behind.                             *)
(***************************************************************************)
Last == log[Len(log)]
Prev == log[Len(log) - 1]

\* two entries are the same request with the same arguments
SameRequest(a, b) == a.op = b.op /\ a.str = b.str /\ a.num = b.num

\* Device State: mode, active colour index, active effect index
DeviceState(E) ==
  <<E.npControllerSetting.programState, E.npControllerSetting.activeColor,
    E.npControllerSetting.activeEffect>>

\* a valid colour: six hex digits, not 000000, brightness 0..100
ValidColour(rgbHex, brightness) ==
  /\ Len(rgbHex) = 6
  /\ \A k \in 1..6 : rgbHex[k] \in {"0","1","2","3","4","5","6","7","8","9",
                                    "A","B","C","D","E","F","a","b","c","d","e","f"}
  /\ \E k \in 1..6 : rgbHex[k] # "0"
  /\ brightness \in 0..100

\* the palette entry a valid colour stands for
Wanted(rgbHex, brightness) ==
  colorType(16 * HexVal(rgbHex[1]) + HexVal(rgbHex[2]),
            16 * HexVal(rgbHex[3]) + HexVal(rgbHex[4]),
            16 * HexVal(rgbHex[5]) + HexVal(rgbHex[6]), brightness)

\* the colour is the saved entry at index i of the record E
SavedAt(E, i, rgbHex, brightness) ==
  /\ i < E.npControllerSetting.colorCount
  /\ E.colors[i] = Wanted(rgbHex, brightness)

IsSaved(E, rgbHex, brightness) ==
  \E i \in 0..(COLOR_COUNT - 1) : SavedAt(E, i, rgbHex, brightness)

\* i is the lowest saved index holding the colour
FirstSavedAt(E, i, rgbHex, brightness) ==
  /\ SavedAt(E, i, rgbHex, brightness)
  /\ \A j \in 0..(i - 1) : ~SavedAt(E, j, rgbHex, brightness)

\* the same setColor was handled twice in a row, with a valid colour
TwoSetColors ==
  /\ Len(log) >= 2
  /\ Last.op = "color"
  /\ SameRequest(Prev, Last)
  /\ ValidColour(Last.str, Last.num)

\* C1: when setColor is handled twice in a row with the same valid colour
\* and brightness, Device State after the second call equals Device State
\* after the first call.
C1_SetColorIdempotent ==
  TwoSetColors => DeviceState(npControllerEEPROM) = DeviceState(Last.before)

\* C1 happens: the colour was not saved and the first call changed Device State
C1_Witness ==
  /\ TwoSetColors
  /\ ~IsSaved(Prev.before, Last.str, Last.num)
  /\ DeviceState(Last.before) # DeviceState(Prev.before)

\* the same save was handled twice in a row, with a valid colour that was
\* not saved and a palette that was not full before the first
TwoSaves ==
  /\ Len(log) >= 2
  /\ Last.op = "save"
  /\ SameRequest(Prev, Last)
  /\ ValidColour(Last.str, Last.num)
  /\ Prev.before.npControllerSetting.colorCount < COLOR_COUNT
  /\ ~IsSaved(Prev.before, Last.str, Last.num)

\* C2 as amended: of two such saves the first returns success when its
\* commit succeeds and the storage error when it fails, the second returns
\* Duplicate when the first left room in the palette and Full when the first
\* filled it, and the count has grown by exactly one.
C2_SaveTwice ==
  TwoSaves =>
    /\ Prev.result = (IF Prev.commitOk THEN 1 ELSE 0)
    /\ Last.result = (IF Prev.before.npControllerSetting.colorCount < COLOR_COUNT - 1
                      THEN 3 ELSE 4)
    /\ colorCount = Prev.before.npControllerSetting.colorCount + 1

\* C2 happens: the first save succeeded and the second was a duplicate
C2_Witness ==
  /\ TwoSaves
  /\ Prev.result = 1
  /\ Last.result = 3

\* C2 as stated: the first save succeeds, the second returns Duplicate, the
\* count has grown by exactly one.
C2_Original ==
  TwoSaves =>
    /\ Prev.result = 1
    /\ Last.result = 3
    /\ colorCount = Prev.before.npControllerSetting.colorCount + 1

\* a save was handled when the palette was full
SaveWhenFull ==
  /\ Len(log) >= 1
  /\ Last.op = "save"
  /\ Last.before.npControllerSetting.colorCount = COLOR_COUNT

\* C3: a save handled with count = N returns Full whatever its arguments
\* are, and leaves the count, the palette entries, Device State and the
\* persisted record as they were.
C3_SaveWhenFull ==
  SaveWhenFull =>
    /\ Last.result = 4
    /\ npControllerEEPROM = Last.before
    /\ flash = Last.flashBefore

\* C3 happens: the colour was valid and not saved, and the commit would have
\* succeeded
C3_Witness ==
  /\ SaveWhenFull
  /\ ValidColour(Last.str, Last.num)
  /\ ~IsSaved(Last.before, Last.str, Last.num)
  /\ Last.commitOk

\* a delete was handled that removed the saved entry at index i
Removed(i) ==
  /\ Len(log) >= 1
  /\ Last.op = "delete"
  /\ ValidColour(Last.str, Last.num)
  /\ FirstSavedAt(Last.before, i, Last.str, Last.num)

\* C4: a delete that removes the saved entry at index i leaves the entries
\* below i as they were, moves every entry above i down by one place in the
\* same order, and lowers the count by exactly one.
C4_DeleteShifts ==
  \A i \in 0..(COLOR_COUNT - 1) :
    Removed(i) =>
      /\ \A j \in 0..(i - 1) : colors[j] = Last.before.colors[j]
      /\ \A j \in (i + 1)..(Last.before.npControllerSetting.colorCount - 1) :
           colors[j - 1] = Last.before.colors[j]
      /\ colorCount = Last.before.npControllerSetting.colorCount - 1

\* C4 happens: an entry was removed that had two entries above it
C4_Witness ==
  \E i \in 0..(COLOR_COUNT - 1) :
    /\ Removed(i)
    /\ i + 2 < Last.before.npControllerSetting.colorCount
    /\ Last.before.colors[i + 1] # Last.before.colors[i + 2]

\* C5: a delete that removes saved index i sets the active colour index to 0
\* when i was the active index, lowers it by one when i was below it, and
\* leaves it alone when i was above it.
C5_DeleteActiveIndex ==
  \A i \in 0..(COLOR_COUNT - 1) :
    Removed(i) =>
      LET old == Last.before.npControllerSetting.activeColor
      IN /\ i = old => activeColor = 0
         /\ i < old => activeColor = old - 1
         /\ i > old => activeColor = old

\* C5 happens: the entry removed was below the active saved colour
C5_Witness ==
  \E i \in 0..(COLOR_COUNT - 1) :
    /\ Removed(i)
    /\ i < Last.before.npControllerSetting.activeColor
    /\ Last.before.npControllerSetting.activeColor < COLOR_COUNT

\* setup() was handled and the record it read from flash failed its checksum
BootedCorrupt ==
  /\ Len(log) >= 1
  /\ Last.op = "setup"
  /\ Last.flashBefore.used
  /\ calculateCRC32(RecordBytes(Last.flashBefore.data)) # Last.flashBefore.data.crc32

\* what C6 says of the record in RAM: count 0, mode Off, both indices 0 and
\* no palette slot holding an entry of the stored record
ResetInRam ==
  /\ colorCount = 0
  /\ programState = NEOPIXEL_OFF
  /\ activeColor = 0
  /\ activeEffect = 0
  /\ \A i \in 0..(COLOR_COUNT - 1) : colors[i] = resetColor

\* the flash holds the record that is in RAM, under its checksum
Committed ==
  /\ flash = [used |-> TRUE, data |-> npControllerEEPROM]
  /\ calculateCRC32(RecordBytes(flash.data)) = flash.data.crc32

\* C6 as amended: after a boot whose record fails its checksum the count is
\* 0, the mode Off, both indices 0 and no stored entry is visible as a saved
\* colour; the reset record has been committed when the commit succeeds, and
\* the flash is as it was when the commit fails.
C6_CorruptBootResets ==
  BootedCorrupt =>
    /\ ResetInRam
    /\ Last.commitOk => Committed
    /\ ~Last.commitOk => flash = Last.flashBefore

\* C6 happens: the stored record held two saved colours and the reset record
\* was committed
C6_Witness ==
  /\ BootedCorrupt
  /\ Last.flashBefore.data.npControllerSetting.colorCount = 2
  /\ ResetInRam
  /\ Committed

\* C6 as stated: the reset record has been committed after every such boot.
C6_Original ==
  BootedCorrupt => (ResetInRam /\ Committed)

\* the entry is a single click
SingleClick(e) == e.op = "click" /\ e.num = BUTTON_SINGLE_CLICK

\* before the entry the palette was [A, B] and the mode Off
TwoColoursOff(e) ==
  /\ e.before.npControllerSetting.colorCount = 2
  /\ e.before.colors[0] # e.before.colors[1]
  /\ e.before.npControllerSetting.programState = NEOPIXEL_OFF

\* before the entry the active colour index was 0 or the scratch index
AtFirstOrScratch(e) == e.before.npControllerSetting.activeColor \in {0, COLOR_COUNT}

\* the last three entries of the history are single clicks
ThreeSingleClicks ==
  /\ Len(log) >= 3
  /\ SingleClick(log[Len(log) - 2])
  /\ SingleClick(Prev)
  /\ SingleClick(Last)

\* C7 as amended: from palette [A, B], mode Off and an active colour index
\* of 0 or N, the first single click gives mode Color with index 0, the
\* second gives index 1, the third gives mode Off with index 0.
C7_ThreeSingleClicks ==
  /\ (Len(log) >= 1 /\ SingleClick(Last) /\ TwoColoursOff(Last) /\ AtFirstOrScratch(Last))
       => (programState = NEOPIXEL_COLOR /\ activeColor = 0)
  /\ (Len(log) >= 2 /\ SingleClick(Prev) /\ SingleClick(Last)
        /\ TwoColoursOff(Prev) /\ AtFirstOrScratch(Prev))
       => activeColor = 1
  /\ (ThreeSingleClicks /\ TwoColoursOff(log[Len(log) - 2])
        /\ AtFirstOrScratch(log[Len(log) - 2]))
       => (programState = NEOPIXEL_OFF /\ activeColor = 0)

\* C7 happens: the third of three such clicks was handled
C7_Witness ==
  /\ ThreeSingleClicks
  /\ TwoColoursOff(log[Len(log) - 2])
  /\ AtFirstOrScratch(log[Len(log) - 2])
  /\ programState = NEOPIXEL_OFF

\* C7 as stated: the same from every state with palette [A, B] and mode Off.
C7_Original ==
  /\ (Len(log) >= 1 /\ SingleClick(Last) /\ TwoColoursOff(Last))
       => (programState = NEOPIXEL_COLOR /\ activeColor = 0)
  /\ (Len(log) >= 2 /\ SingleClick(Prev) /\ SingleClick(Last) /\ TwoColoursOff(Prev))
       => activeColor = 1
  /\ (ThreeSingleClicks /\ TwoColoursOff(log[Len(log) - 2]))
       => (programState = NEOPIXEL_OFF /\ activeColor = 0)

\* a save of a valid colour that was not saved was handled, with room in the
\* palette and a commit that succeeds
SavedNew ==
  /\ Len(log) >= 1
  /\ Last.op = "save"
  /\ ValidColour(Last.str, Last.num)
  /\ ~IsSaved(Last.before, Last.str, Last.num)
  /\ Last.before.npControllerSetting.colorCount < COLOR_COUNT
  /\ Last.commitOk

\* C8: such a save returns success, writes the entry at the index that was
\* the count, raises the count by one and leaves the entries below that
\* index, the scratch slot and Device State as they were.
C8_SaveAppends ==
  SavedNew =>
    LET old == Last.before.npControllerSetting.colorCount
    IN /\ Last.result = 1
       /\ colors[old] = Wanted(Last.str, Last.num)
       /\ colorCount = old + 1
       /\ \A j \in 0..(old - 1) : colors[j] = Last.before.colors[j]
       /\ colors[COLOR_COUNT] = Last.before.colors[COLOR_COUNT]
       /\ DeviceState(npControllerEEPROM) = DeviceState(Last.before)

\* C8 happens: the palette held an entry and the scratch slot a colour
C8_Witness ==
  /\ SavedNew
  /\ Last.before.npControllerSetting.colorCount >= 1
  /\ Last.before.colors[COLOR_COUNT] # resetColor
  /\ Last.result = 1

\* a setColor was handled and returned success
SetColorOk ==
  /\ Len(log) >= 1
  /\ Last.op = "color"
  /\ Last.result = 1

\* C9: a successful setColor sets the mode to Color; a colour saved at index
\* i makes i the active colour index and leaves the scratch slot alone; a
\* colour that is not saved is written to the scratch slot and makes N the
\* active colour index; the count and the saved entries stay as they were.
C9_SetColorSelects ==
  SetColorOk =>
    /\ programState = NEOPIXEL_COLOR
    /\ \A i \in 0..(COLOR_COUNT - 1) :
         FirstSavedAt(Last.before, i, Last.str, Last.num) =>
           /\ activeColor = i
           /\ colors[COLOR_COUNT] = Last.before.colors[COLOR_COUNT]
    /\ ~IsSaved(Last.before, Last.str, Last.num) =>
         /\ colors[COLOR_COUNT] = Wanted(Last.str, Last.num)
         /\ activeColor = COLOR_COUNT
    /\ colorCount = Last.before.npControllerSetting.colorCount
    /\ \A j \in 0..(colorCount - 1) : colors[j] = Last.before.colors[j]

\* C9 happens: the colour was saved at an index above 0 that was not active
C9_Witness ==
  /\ SetColorOk
  /\ \E i \in 1..(COLOR_COUNT - 1) :
       /\ FirstSavedAt(Last.before, i, Last.str, Last.num)
       /\ Last.before.npControllerSetting.activeColor # i

\* a delete of a valid colour that was not saved was handled
DeleteUnsaved ==
  /\ Len(log) >= 1
  /\ Last.op = "delete"
  /\ ValidColour(Last.str, Last.num)
  /\ ~IsSaved(Last.before, Last.str, Last.num)

\* C10: such a delete returns NotFound, commits nothing and leaves the
\* count, every palette entry and Device State as they were.
C10_DeleteNotFound ==
  DeleteUnsaved =>
    /\ Last.result = 3
    /\ flash = Last.flashBefore
    /\ npControllerEEPROM = Last.before

\* C10 happens: the colour was the unsaved one shown from the scratch slot
C10_Witness ==
  /\ DeleteUnsaved
  /\ Last.before.npControllerSetting.colorCount >= 1
  /\ Last.before.npControllerSetting.activeColor = COLOR_COUNT
  /\ Last.before.colors[COLOR_COUNT] = Wanted(Last.str, Last.num)

(***************************************************************************)
(* C11: a request the validation rejects changes nothing                   *)
(***************************************************************************)
\* the request function of entry e got a colour that is not six hexadecimal
\* digits of a colour other than black with a brightness of at most 100, or
\* an effect name that is not a name of the table
Rejected(e) ==
  \/ e.op \in {"color", "save", "delete"} /\ ~ValidColour(e.str, e.num)
  \/ e.op = "effect" /\ \A k \in 1..ARRAY_SIZE_effects : effects[k].effectName # e.str

\* what the request function of op returns for an invalid colour (colorRequest:
\* 0, saveRequest and deleteRequest: 2) and for an unknown effect (0)
FailureKind(op) == IF op \in {"save", "delete"} THEN 2 ELSE 0

\* nothing changed since entry e was handled: the whole record in RAM
\* (state, active colour and effect, count, palette and scratch slot), the
\* flag changeNeopixel, and the flash
LeftUnchanged(e) ==
  /\ npControllerEEPROM = e.before
  /\ e.dirty = e.dirtyBefore
  /\ flash = e.flashBefore

\* C11 (amended): a setColor, save, delete or setEffect that the validation
\* rejects leaves the state, the active colour and effect, the count, every
\* palette entry with the scratch slot, the dirty flag and the persisted
\* record unchanged, and returns InvalidColor or UnknownEffect; only a save
\* on a full palette returns Full instead, whatever the colour is
C11_RejectedChangesNothing ==
  (log # <<>> /\ Rejected(Last)) =>
    /\ LeftUnchanged(Last)
    /\ Last.result = IF Last.op = "save" /\
                        Last.before.npControllerSetting.colorCount = COLOR_COUNT
                     THEN 4 ELSE FailureKind(Last.op)

\* a save with an invalid colour was handled on a full palette and
\* returned Full
C11_Witness ==
  /\ log # <<>> /\ Rejected(Last)
  /\ Last.op = "save"
  /\ Last.before.npControllerSetting.colorCount = COLOR_COUNT
  /\ Last.result = 4

\* C11 as stated: every rejected request returns InvalidColor or UnknownEffect
C11_Original ==
  (log # <<>> /\ Rejected(Last)) =>
    /\ LeftUnchanged(Last)
    /\ Last.result = FailureKind(Last.op)
(***************************************************************************)
(* C12: parameters of the wrong length                                     *)
(***************************************************************************)
\* the characters of s before the first ch (all of s if there is none)
UpTo(s, ch) ==
  LET k == CHOOSE j \in 1..(Len(s) + 1) :
             /\ j = Len(s) + 1 \/ s[j] = ch
             /\ \A i \in 1..(j - 1) : s[i] # ch
  IN SubSeq(s, 1, k - 1)

\* the colour parameter of entry e as it was sent: the color argument of an
\* HTTP request, the part before the / of an MQTT payload
ColourParameter(e) == IF Len(e.arg) = 2 THEN e.arg[1] ELSE UpTo(e.arg[1], "/")

\* the parameter is exactly six hexadecimal digits
SixHexDigits(s) == Len(s) = 6 /\ \A k \in 1..6 : isxdigit(s[k])

\* entry e is a request whose colour parameter is not exactly six
\* hexadecimal digits, or whose effect parameter is not exactly a name of
\* the table
Malformed(e) ==
  \/ e.op \in {"color", "save", "delete"} /\ ~SixHexDigits(ColourParameter(e))
  \/ e.op = "effect" /\ \A k \in 1..ARRAY_SIZE_effects : effects[k].effectName # e.arg[1]

\* the request of entry e did not get past the validation (a save on a full
\* palette is counted as turned away, too)
TurnedAway(e) ==
  \/ e.result = FailureKind(e.op)
  \/ e.op = "save" /\ e.result = 4

\* C12: from the HTTP handlers and from the MQTT callback alike, a colour
\* parameter that is not exactly six hexadecimal digits and an effect name
\* that is not exactly a name of the table are rejected with nothing
\* changed; a parameter that is too long is not cut down to an accepted one
C12_MalformedRejected ==
  (log # <<>> /\ Malformed(Last)) => (TurnedAway(Last) /\ LeftUnchanged(Last))

(***************************************************************************)
(* C13: brightness above 100                                               *)
(***************************************************************************)
\* the brightness parameter of entry e as it was sent: the brightness
\* argument of an HTTP request, the number after the / of an MQTT payload
BrightnessParameter(e) ==
  IF Len(e.arg) = 2 THEN e.arg[2]
  ELSE ScanDec(e.arg[1], Len(UpTo(e.arg[1], "/")) + 2, 0)

\* C13: a setColor, save or delete whose brightness parameter is above 100
\* is rejected (InvalidColor, or Full for a save on a full palette) and
\* changes nothing, also when the parameter is above 255
C13_BrightnessAbove100Rejected ==
  (log # <<>> /\ Last.op \in {"color", "save", "delete"} /\ BrightnessParameter(Last) > 100)
    => (TurnedAway(Last) /\ LeftUnchanged(Last))
(***************************************************************************)
(* C14: setEffect starts the effect at frame 0                             *)
(***************************************************************************)
\* entry e is a setEffect whose name is the name of descriptor k of the table
SetEffectOf(e, k) ==
  /\ e.op = "effect"
  /\ k \in 0..(ARRAY_SIZE_effects - 1)
  /\ effects[k + 1].effectName = e.str

\* C14: after a setEffect with the name of descriptor k the state is Effect,
\* the active effect is k, the active colour, the count and the palette are
\* as before, and the first frame rendered after it is frame 0 of effect k,
\* also when effect k was already running at a later frame
C14_SetEffectStartsAtFrame0 ==
  \A k \in 0..(ARRAY_SIZE_effects - 1) :
    (log # <<>> /\ SetEffectOf(Last, k)) =>
      /\ Last.result = 1
      /\ programState = NEOPIXEL_EFFECT
      /\ activeEffect = k
      /\ activeColor = Last.before.npControllerSetting.activeColor
      /\ colorCount = Last.before.npControllerSetting.colorCount
      /\ colors = Last.before.colors
      /\ shown \in {Nothing} \cup {ShowFrame(k, 0, found) : found \in {0, 1}}

\* effect k was running and past frame 0 when setEffect k was handled again,
\* and a frame has been rendered since
C14_Witness ==
  /\ log # <<>>
  /\ \E k \in 0..(ARRAY_SIZE_effects - 1) :
       /\ SetEffectOf(Last, k)
       /\ Last.before.npControllerSetting.programState = NEOPIXEL_EFFECT
       /\ Last.before.npControllerSetting.activeEffect = k
       /\ Last.frameBefore > 0
       /\ shown \in {ShowFrame(k, 0, found) : found \in {0, 1}}
(***************************************************************************)
(* C15: setOff and the long click                                          *)
(***************************************************************************)
\* entry e is a setOff request or a long click
TurnsOff(e) ==
  \/ e.op = "off"
  \/ e.op = "click" /\ e.num = BUTTON_LONG_CLICK

\* C15: from every state, setOff and a long click succeed and set the state
\* to Off; the active colour, the active effect, the count, the palette
\* with the scratch slot and the persisted record stay as they were
C15_OffKeepsTheRest ==
  (log # <<>> /\ TurnsOff(Last)) =>
    /\ Last.result = 1
    /\ programState = NEOPIXEL_OFF
    /\ activeColor = Last.before.npControllerSetting.activeColor
    /\ activeEffect = Last.before.npControllerSetting.activeEffect
    /\ colorCount = Last.before.npControllerSetting.colorCount
    /\ colors = Last.before.colors
    /\ flash = Last.flashBefore

\* a setOff request ended a colour that was not the first of the palette,
\* and a long click followed it
C15_Witness ==
  /\ Len(log) >= 2
  /\ Prev.op = "off"
  /\ Prev.before.npControllerSetting.programState = NEOPIXEL_COLOR
  /\ Prev.before.npControllerSetting.activeColor > 0
  /\ Last.op = "click" /\ Last.num = BUTTON_LONG_CLICK
(***************************************************************************)
(* C16: the dirty flag after a request                                     *)
(***************************************************************************)
\* C16: every setColor, save, delete, setEffect and setOff that succeeds
\* leaves the dirty flag raised, so that the scheduler redraws in the same
\* loop iteration
C16_SuccessRaisesFlag ==
  (log # <<>> /\ Last.op \in {"color", "save", "delete", "effect", "off"} /\ Last.result = 1)
    => Last.dirty = 1
(***************************************************************************)
(* C17: the device state and the persistent storage                        *)
(***************************************************************************)
\* state and active effect of a record (a delete may renumber the active
\* colour, so that index is left out)
StateAndEffect(E) ==
  <<E.npControllerSetting.programState, E.npControllerSetting.activeEffect>>

\* C17: a save or delete that commits writes no state, active colour or
\* active effect that setColor, setEffect, setOff or a click produced in
\* this session: the state and the active effect the flash holds are those
\* of the valid record it held before the commit
C17_DeviceStateNotPersisted ==
  (/\ log # <<>> /\ Last.op \in {"save", "delete"} /\ Last.result = 1
   /\ Last.flashBefore.used
   /\ calculateCRC32(RecordBytes(Last.flashBefore.data)) = Last.flashBefore.data.crc32)
    => StateAndEffect(flash.data) = StateAndEffect(Last.flashBefore.data)
(***************************************************************************)
(* C18: a commit that fails                                                *)
(***************************************************************************)
\* the latest request was a save or a delete that passed all checks and
\* whose commit failed
CommitFailed ==
  /\ log # <<>>
  /\ ValidColour(Last.str, Last.num)
  /\ ~Last.commitOk
  /\ \/ /\ Last.op = "save"
        /\ ~IsSaved(Last.before, Last.str, Last.num)
        /\ Last.before.npControllerSetting.colorCount < COLOR_COUNT
     \/ /\ Last.op = "delete"
        /\ IsSaved(Last.before, Last.str, Last.num)

\* the record in RAM has the change the latest request attempted
ChangeKept ==
  LET old == Last.before.npControllerSetting.colorCount
  IN IF Last.op = "save"
     THEN colorCount = old + 1 /\ colors[old] = Wanted(Last.str, Last.num)
     ELSE /\ colorCount = old - 1
          /\ \A i \in 0..(old - 1) :
               FirstSavedAt(Last.before, i, Last.str, Last.num) =>
                 \A j \in (i + 1)..(old - 1) : colors[j - 1] = Last.before.colors[j]

\* C18 (amended): a save or delete that passed all checks and whose commit
\* fails returns StorageError, the palette and the count in RAM keep the
\* change, and nothing is written (no retry): the persisted record is the
\* one from before the request; every save or delete that commits leaves
\* the persisted record equal to the record in RAM
C18_FailedCommit ==
  /\ CommitFailed =>
       /\ Last.result = 0
       /\ ChangeKept
       /\ flash = Last.flashBefore
  /\ (log # <<>> /\ Last.op \in {"save", "delete"} /\ Last.result = 1) =>
       flash = [used |-> TRUE, data |-> npControllerEEPROM]

\* a commit failed and the next save or delete committed
C18_Witness ==
  /\ Len(log) >= 2
  /\ Prev.op \in {"save", "delete"} /\ Prev.result = 0
  /\ Prev.before # Last.before
  /\ Last.op \in {"save", "delete"} /\ Last.result = 1
  /\ flash.data = npControllerEEPROM

\* C18 as stated: moreover the record in RAM and the persisted record
\* differ as long as no save or delete has committed since the failure
C18_Original ==
  /\ C18_FailedCommit
  /\ CommitFailed => npControllerEEPROM # flash.data
(***************************************************************************)
(* C19: what a reboot loads                                                *)
(***************************************************************************)
\* setup() has just run, and the latest save or delete before it committed
RebootedAfterCommit ==
  /\ log # <<>>
  /\ Last.op = "setup"
  /\ lastCommit # <<>>

\* C19: when the latest save or delete committed, a reboot finds the
\* checksum of the record right, writes nothing, and loads the count and
\* the saved entries, in their order, that were in RAM at that commit
C19_RebootLoadsCommitted ==
  RebootedAfterCommit =>
    /\ calculateCRC32(RecordBytes(Last.flashBefore.data)) = Last.flashBefore.data.crc32
    /\ flash = Last.flashBefore
    /\ Palette(npControllerEEPROM) = lastCommit

\* the device was restarted after a save or delete of this run committed
\* and changed the flash it was started with
C19_Witness ==
  /\ RebootedAfterCommit
  /\ ncmd >= 1
  /\ flash \notin InitialFlash
  /\ lastCommit.count >= 1
(***************************************************************************)
(* C20: every click raises the dirty flag                                  *)
(***************************************************************************)
\* C20: after every click the dirty flag is raised, whether or not the
\* click changed anything; a single click while no colour is saved leaves
\* the state, the active colour, the active effect and the palette as they
\* were and raises the flag all the same
C20_ClickRaisesFlag ==
  (log # <<>> /\ Last.op = "click") =>
    /\ Last.dirty = 1
    /\ (Last.num = BUTTON_SINGLE_CLICK /\ Last.before.npControllerSetting.colorCount = 0)
         => npControllerEEPROM = Last.before

\* a single click came while an unsaved colour was shown, no colour was
\* saved and the flag was down
C20_Witness ==
  /\ log # <<>>
  /\ Last.op = "click" /\ Last.num = BUTTON_SINGLE_CLICK
  /\ Last.before.npControllerSetting.colorCount = 0
  /\ Last.before.npControllerSetting.programState = NEOPIXEL_COLOR
  /\ Last.dirtyBefore = 0
  /\ Last.dirty = 1
(***************************************************************************)
(* C21: a single click while the scratch colour is selected                *)
(***************************************************************************)
\* the latest entry is a single click that found at least one saved colour
SingleClickOnPalette ==
  /\ log # <<>>
  /\ SingleClick(Last)
  /\ Last.before.npControllerSetting.colorCount >= 1

\* C21: a single click with at least one saved colour and the scratch index
\* active sets the state to Color and the active colour index to 0, from
\* Off, Color and Effect alike, and goes no further on that click
C21_ClickFromScratch ==
  (SingleClickOnPalette /\ Last.before.npControllerSetting.activeColor = COLOR_COUNT) =>
    /\ programState = NEOPIXEL_COLOR
    /\ activeColor = 0
    /\ activeEffect = Last.before.npControllerSetting.activeEffect
    /\ colorCount = Last.before.npControllerSetting.colorCount
    /\ colors = Last.before.colors

\* the click came in the off state with the scratch index active and more
\* than one colour saved
C21_Witness ==
  /\ SingleClickOnPalette
  /\ Last.before.npControllerSetting.activeColor = COLOR_COUNT
  /\ Last.before.npControllerSetting.programState = NEOPIXEL_OFF
  /\ Last.before.npControllerSetting.colorCount >= 2
  /\ activeColor = 0
ClickOnSaved(e) ==
  /\ SingleClick(e)
  /\ e.before.npControllerSetting.programState = NEOPIXEL_COLOR
  /\ e.before.npControllerSetting.activeColor < e.before.npControllerSetting.colorCount

\* C23: a single click in the colour state with a saved index active turns
\* the strip off and sets the index to 0 when the index was the last saved
\* one, and otherwise keeps the colour state and raises the index by one;
\* count, palette and active effect stay as they were.  Clicks that start
\* at index 0 therefore go through the saved colours in the order of their
\* indices and then turn the strip off.
C23_ClickAdvances ==
  (log # <<>> /\ ClickOnSaved(Last)) =>
    LET old == Last.before.npControllerSetting IN
    /\ IF old.activeColor = old.colorCount - 1
       THEN programState = NEOPIXEL_OFF /\ activeColor = 0
       ELSE programState = NEOPIXEL_COLOR /\ activeColor = old.activeColor + 1
    /\ colorCount = old.colorCount
    /\ activeEffect = old.activeEffect
    /\ colors = Last.before.colors

\* one click went on from a saved colour to the next one, the last saved,
\* and the click after it turned the strip off
C23_Witness ==
  /\ Len(log) >= 2
  /\ ClickOnSaved(Prev) /\ ClickOnSaved(Last)
  /\ Last.before.npControllerSetting.activeColor
       = Prev.before.npControllerSetting.activeColor + 1
  /\ Last.before.npControllerSetting.activeColor
       = Last.before.npControllerSetting.colorCount - 1
  /\ programState = NEOPIXEL_OFF /\ activeColor = 0
(***************************************************************************)
(* C24: the double click                                                   *)
(***************************************************************************)
DoubleClick(e) == e.op = "click" /\ e.num = BUTTON_DOUBLE_CLICK

\* C24: a double click in the off or the colour state sets the state to
\* Effect and leaves the active effect index as it was; in the effect state
\* it raises the index by one, and at the last effect it turns the strip
\* off and sets the index to 0.  The active colour index, the count and the
\* palette stay as they were.
C24_DoubleClick ==
  (log # <<>> /\ DoubleClick(Last)) =>
    LET old == Last.before.npControllerSetting IN
    /\ IF old.programState \in {NEOPIXEL_OFF, NEOPIXEL_COLOR}
       THEN programState = NEOPIXEL_EFFECT /\ activeEffect = old.activeEffect
       ELSE IF old.activeEffect = ARRAY_SIZE_effects - 1
       THEN programState = NEOPIXEL_OFF /\ activeEffect = 0
       ELSE programState = NEOPIXEL_EFFECT /\ activeEffect = old.activeEffect + 1
    /\ activeColor = old.activeColor
    /\ colorCount = old.colorCount
    /\ colors = Last.before.colors

\* a double click at the last effect turned the strip off, and the next
\* one started the effects again
C24_Witness ==
  /\ Len(log) >= 2
  /\ DoubleClick(Prev) /\ DoubleClick(Last)
  /\ Prev.before.npControllerSetting.programState = NEOPIXEL_EFFECT
  /\ Prev.before.npControllerSetting.activeEffect = ARRAY_SIZE_effects - 1
  /\ Last.before.npControllerSetting.programState = NEOPIXEL_OFF
  /\ programState = NEOPIXEL_EFFECT /\ activeEffect = 0

(***************************************************************************)
(* C25: the dirty flag and the scheduler                                   *)
(***************************************************************************)
\* what the strip is given for the state the record in RAM is in
Drawn ==
  IF programState = NEOPIXEL_OFF THEN ShowOff ELSE ShowColor(colors[activeColor])

\* C25: the dirty flag is clear at the end of every loop iteration; in the
\* off and the colour state the strip has been redrawn, once and no more,
\* by the end of an iteration if and only if the flag was up after the
\* latest request or click, and later iterations without a request or
\* click draw nothing
C25_FlagConsumedOnce ==
  /\ pc \in {"boot", "http"} => changeNeopixel = 0
  /\ (pc = "http" /\ log # <<>> /\ programState \in {NEOPIXEL_OFF, NEOPIXEL_COLOR}) =>
       outputs = IF Last.dirty = 1 THEN <<Drawn>> ELSE <<>>

\* an iteration has ended in which a colour request raised the flag while a
\* colour was already shown, and the strip was redrawn once
C25_Witness ==
  /\ pc = "http"
  /\ log # <<>>
  /\ Last.op = "color" /\ Last.dirty = 1 /\ Last.dirtyBefore = 0
  /\ Last.before.npControllerSetting.programState = NEOPIXEL_COLOR
  /\ outputs = <<Drawn>>

(***************************************************************************)
(* C26                                                                     *)
(***************************************************************************)
IsFrame(o) == o # Nothing /\ o[1] = "effect"

\* C26: every frame that is rendered is a frame of the active effect with
\* an index from 0 up to the effectFrames of that effect less one, a frame
\* rendered after another one has the index after it, or 0 after the last
\* index, the first frame rendered after the flag was raised is frame 0, and
\* actualFrame is such an index when the pass has ended.
C26_FrameIndexInRange ==
  /\ \A i \in 1..Len(outputs) : IsFrame(outputs[i]) =>
       /\ programState = NEOPIXEL_EFFECT
       /\ outputs[i][2] = activeEffect
       /\ outputs[i][3] \in 0..(effects[activeEffect + 1].effectFrames - 1)
  /\ \A i \in 1..(Len(outputs) - 1) :
       (IsFrame(outputs[i]) /\ IsFrame(outputs[i + 1])) =>
         outputs[i + 1][3] =
           IF outputs[i][3] = effects[activeEffect + 1].effectFrames - 1
           THEN 0 ELSE outputs[i][3] + 1
  /\ (log # <<>> /\ Last.dirty = 1 /\ IsFrame(shown)) => shown[3] = 0
  /\ (pc = "http" /\ programState = NEOPIXEL_EFFECT) =>
       actualFrame \in 0..(effects[activeEffect + 1].effectFrames - 1)

\* the last frame of an effect of more than one frame was rendered, and
\* frame 0 after it
C26_Witness ==
  /\ pc = "http"
  /\ programState = NEOPIXEL_EFFECT
  /\ effects[activeEffect + 1].effectFrames > 1
  /\ Len(outputs) = 2
  /\ IsFrame(outputs[1]) /\ IsFrame(outputs[2])
  /\ outputs[1][3] = effects[activeEffect + 1].effectFrames - 1
  /\ outputs[2][3] = 0
  /\ actualFrame = 1

(***************************************************************************)
(* C27                                                                     *)
(***************************************************************************)
\* the latest request or click started an effect: it raised the flag and
\* left the state NEOPIXEL_EFFECT
StartedEffect ==
  /\ log # <<>>
  /\ Last.op \in {"effect", "click"}
  /\ Last.dirty = 1
  /\ programState = NEOPIXEL_EFFECT

\* C27: when a request or click has started an effect, frame 0 of the
\* active effect has been rendered by the end of that iteration of loop().
C27_Frame0AtOnce ==
  (StartedEffect /\ pc = "http") =>
    /\ IsFrame(shown)
    /\ shown[2] = activeEffect
    /\ shown[3] = 0

(***************************************************************************)
(* C28                                                                     *)
(***************************************************************************)
\* C28: the first frame that fire2012 renders after a request or click
\* started it finds heat[] as it is when the program starts.
C28_HeatResetOnEntry ==
  (StartedEffect /\ IsFrame(shown) /\ shown[3] = 0
     /\ effects[shown[2] + 1].effectName = fire2012)
    => shown[4] = 0

(***************************************************************************)
(* C29                                                                     *)
(***************************************************************************)
\* C29: mqttConnect() ends with a connection or with a restart, it never
\* makes more than MQTT_RETRIES + 1 attempts, and a restart it ends with
\* comes after MQTT_RETRIES + 1 failed attempts in a row.
C29_ReconnectEnds ==
  /\ connectAttempts <= MQTT_RETRIES + 1
  /\ pc = "connect" => connectAttempts <= MQTT_RETRIES
  /\ (pc = "boot" /\ connectAttempts # 0) => connectAttempts = MQTT_RETRIES + 1

(***************************************************************************)
(* C30                                                                     *)
(***************************************************************************)
\* the globals after the request or click of a history entry, computed from
\* the globals before it
Applied(e) ==
  LET G == [E |-> e.before, changeNeopixel |-> e.dirtyBefore, flash |-> e.flashBefore]
  IN CASE e.op = "color" -> colorRequest(G, e.str, e.num).G
       [] e.op = "off" -> offRequest(G).G
       [] e.op = "effect" -> effectRequest(G, e.str).G
       [] e.op = "save" -> saveRequest(G, e.str, e.num, e.commitOk).G
       [] e.op = "delete" -> deleteRequest(G, e.str, e.num, e.commitOk).G
       [] e.op = "click" -> processClick(G, e.num)
       [] e.op = "setup" -> loadEEPROM(G, e.commitOk)
       [] OTHER -> G

\* the part of loop() that follows a part
After(part) ==
  CASE part = "boot" -> {"http"}
    [] part = "http" -> {"mqtt"}
    [] part = "mqtt" -> {"button"}
    [] part = "button" -> {"sched"}
    [] part = "sched" -> {"http"}
    [] OTHER -> {}

\* what the strip can be given for the globals as they are
Renders ==
  CASE programState = NEOPIXEL_OFF -> {ShowOff}
    [] programState = NEOPIXEL_COLOR -> {ShowColor(colors[activeColor])}
    [] programState = NEOPIXEL_EFFECT ->
         {ShowFrame(activeEffect, f, h) :
            f \in 0..(effects[activeEffect + 1].effectFrames - 1), h \in {0, 1}}
    [] OTHER -> {}

\* requests and clicks follow each other without anything in between: each
\* found the record the one before it left, and the record is what the
\* latest one left
OneAfterAnother ==
  /\ (Len(log) >= 2) =>
       /\ Last.before = Applied(Prev).E
       /\ Last.flashBefore = Applied(Prev).flash
       /\ Last.dirtyBefore = 1 => Applied(Prev).changeNeopixel = 1 \/ Prev.dirtyBefore = 1
  /\ (log # <<>> /\ pc # "boot") =>
       /\ npControllerEEPROM = Applied(Last).E
       /\ flash = Applied(Last).flash

\* a step of loop(): the parts run in the order HTTP, MQTT, button,
\* scheduler; a request or click is handled by the first three, one by each
\* at most, and changes nothing the strip was given; the strip is given
\* something by the scheduler only, and that is a rendering of the globals
\* as the requests and clicks of the iteration left them
InOrder ==
  /\ pc' \in After(pc)
  /\ (ncmd' # ncmd) => pc \in {"http", "mqtt", "button"} /\ ncmd' = ncmd + 1
  /\ (outputs' # outputs /\ outputs' # <<>>) =>
       /\ pc = "sched"
       /\ ncmd' = ncmd
       /\ UNCHANGED npControllerEEPROM
       /\ outputs'[Len(outputs')] \in Renders

\* C30: in every iteration of loop() HTTP is served first, then MQTT, then
\* the button, and the scheduler runs last; what they change is applied one
\* after another in that order, each completely, and the scheduler renders
\* the state that results and no state in between.
C30_SourcesInOrder == []OneAfterAnother /\ [][InOrder]_vars

\* an iteration has ended in which a colour came over HTTP, an effect over
\* MQTT and a long click from the button, and the strip was given the off
\* state the click left and nothing else
C30_Witness ==
  /\ pc = "http"
  /\ Len(log) = 3
  /\ log[1].op = "color" /\ log[1].dirtyBefore = 0 /\ log[1].dirty = 1
  /\ log[2].op = "effect" /\ log[2].dirtyBefore = 1 /\ log[2].result = 1
  /\ log[3].op = "click" /\ log[3].num = BUTTON_LONG_CLICK /\ log[3].dirtyBefore = 1
  /\ log[2].before.npControllerSetting.programState = NEOPIXEL_COLOR
  /\ log[3].before.npControllerSetting.programState = NEOPIXEL_EFFECT
  /\ programState = NEOPIXEL_OFF
  /\ outputs = <<ShowOff>>
(***************************************************************************)
(* C31                                                                     *)
(***************************************************************************)
\* the flash holds a record whose crc32 matches
ValidFlash(f) ==
  f.used /\ calculateCRC32(RecordBytes(f.data)) = f.data.crc32

\* C31: when the flash is not what it was before the latest request, click
\* or setup(), then that was a save or a delete that returned 1, or a
\* setup() that found no valid record; nothing that follows it up to the
\* next request or click (the scheduler, the idle parts of loop()) writes.
C31_OnlySaveDeleteWrite ==
  (log # <<>> /\ flash # Last.flashBefore) =>
    \/ Last.op \in {"save", "delete"} /\ Last.result = 1
    \/ Last.op = "setup" /\ ~ValidFlash(Last.flashBefore)

\* a colour was saved and written, then a request that is turned away, a
\* setColor or a click followed and the scheduler ran, and the flash is
\* what the save wrote
C31_Witness ==
  /\ pc = "http"
  /\ Len(log) >= 2
  /\ Prev.op = "save" /\ Prev.result = 1
  /\ Last.flashBefore # Prev.flashBefore
  /\ Last.op \in {"color", "click", "delete"}
  /\ Last.op = "delete" => Last.result \in {2, 3}
  /\ flash = Last.flashBefore
(***************************************************************************)
(* C32                                                                     *)
(***************************************************************************)
\* the saved entries [0, colorCount) of a record are valid colours and
\* differ from each other
DistinctAndValid(E) ==
  \A i \in 0..(E.npControllerSetting.colorCount - 1) :
    /\ E.colors[i].rgb # <<0, 0, 0>>
    /\ E.colors[i].brtns \in 0..100
    /\ \A j \in 0..(E.npControllerSetting.colorCount - 1) :
         (E.colors[i].rgb = E.colors[j].rgb /\ E.colors[i].brtns = E.colors[j].brtns)
           => i = j

\* C32: the saved entries of the record in RAM, and of a valid record in
\* the flash, are valid colours and no two of them are equal in rgb and
\* brightness.
C32_PaletteDistinctValid ==
  /\ DistinctAndValid(npControllerEEPROM)
  /\ ~DistinctAndValid(flash.data) => ~ValidFlash(flash)

\* a saved colour was deleted, then a colour was saved, and the palette
\* holds two colours or more
C32_Witness ==
  /\ Len(log) >= 2
  /\ Prev.op = "delete" /\ Prev.result = 1
  /\ Prev.before.npControllerSetting.colorCount >= 2
  /\ Last.op = "save" /\ Last.result = 1
  /\ colorCount >= 2
  /\ ValidFlash(flash) /\ flash.data.npControllerSetting.colorCount = colorCount
(***************************************************************************)
(* C33                                                                     *)
(***************************************************************************)
\* colorCount and activeColor of a record are in 0..COLOR_COUNT, its
\* activeEffect is an index of effects[] and its programState is one of
\* the three states
InRange(E) ==
  /\ E.npControllerSetting.colorCount \in 0..COLOR_COUNT
  /\ E.npControllerSetting.activeColor \in 0..COLOR_COUNT
  /\ E.npControllerSetting.activeEffect \in 0..(ARRAY_SIZE_effects - 1)
  /\ E.npControllerSetting.programState \in {NEOPIXEL_OFF, NEOPIXEL_COLOR, NEOPIXEL_EFFECT}

\* C33: in every state the count, the active colour index and the active
\* effect index of the record in RAM, and of a valid record in the flash,
\* are in their ranges.
C33_IndicesInRange ==
  /\ InRange(npControllerEEPROM)
  /\ ~InRange(flash.data) => ~ValidFlash(flash)

\* a delete while the scratch colour was selected lowered the active colour
\* index, and a single click raised it to COLOR_COUNT again
C33_Witness ==
  /\ Len(log) >= 2
  /\ Prev.op = "delete" /\ Prev.result = 1
  /\ Prev.before.npControllerSetting.activeColor = COLOR_COUNT
  /\ Last.op = "click" /\ Last.num = BUTTON_SINGLE_CLICK
  /\ Last.before.npControllerSetting.activeColor = COLOR_COUNT - 1
  /\ activeColor = COLOR_COUNT
(***************************************************************************)
(* C34                                                                     *)
(***************************************************************************)
\* C34: in the colour state the active colour index is COLOR_COUNT (the
\* scratch slot) or the index of a saved entry.
C34_ActiveColourIsShown ==
  programState = NEOPIXEL_COLOR =>
    activeColor = COLOR_COUNT \/ activeColor < colorCount
(***************************************************************************)
(* C35                                                                     *)
(***************************************************************************)
\* C35: when an iteration of loop() has ended, the strip is cleared in the
\* off state and shows colors[activeColor] in the colour state.
C35_StripAgrees ==
  pc = "http" =>
    /\ programState = NEOPIXEL_OFF => strip = ShowOff
    /\ programState = NEOPIXEL_COLOR => strip = ShowColor(colors[activeColor])

(***************************************************************************)
(* C36                                                                     *)
(***************************************************************************)
\* the latest request or click was a save, a delete or a click that found
\* an effect running and left the state and the active effect as they were
LeftEffectRunning ==
  /\ log # <<>>
  /\ Last.op \in {"save", "delete", "click"}
  /\ Last.before.npControllerSetting.programState = NEOPIXEL_EFFECT
  /\ programState = NEOPIXEL_EFFECT
  /\ activeEffect = Last.before.npControllerSetting.activeEffect

\* C36: the first frame rendered after such a request or click is the one
\* that was due before it: the animation goes on and does not start again
\* at frame 0.
C36_AnimationGoesOn ==
  (LeftEffectRunning /\ IsFrame(shown)) => shown[3] = Last.frameBefore
\* C37: in the effect state the animation does not stall: when a pass of
\* Handle Neopixels is over and a frame is what the strip was given last,
\* less than a frame period has passed since that frame was rendered, also
\* where millis() or lastNeopixelRefresh + 1000/EFFECT_FRAMES_PER_SECOND
\* goes round modulo 2^32.
C37_NoStall ==
  (pc = "http" /\ programState = NEOPIXEL_EFFECT /\ changeNeopixel = 0
     /\ IsFrame(strip))
    => waited < FramePeriod

\* the last index at which x occurs in str
HasChar(str, x) == \E k \in 1..Len(str) : str[k] = x
LastIndexOf(str, x) ==
  CHOOSE i \in 0..(Len(str) - 1) :
    str[i + 1] = x /\ \A j \in (i + 1)..(Len(str) - 1) : str[j + 1] # x

\* C38: findLastIndex(topic, '/') returns for every topic, and it returns
\* the last index at which '/' occurs, or -1 (255 in a uint8_t) where '/'
\* does not occur; a topic for which it reports not-found is rejected by
\* mqttCallback ("Wrong parameters for topics").
C38_LastIndexOrNotFound ==
  /\ pc # "hang"
  /\ (log # <<>> /\ Last.op \in {"wrong", "unknown"}) =>
       IF HasChar(Last.arg[1], "/")
       THEN Last.num = LastIndexOf(Last.arg[1], "/")
       ELSE Last.op = "wrong" /\ Last.num = 255

====
